---- MODULE Spec2Model ----
(***************************************************************************)
(* Model of the parse-wholesale-file handler of ideal-stock-hub            *)
(* (supabase/functions/parse-wholesale-file/index.ts): the request state   *)
(* machine, the schema validation of the AI output and the direct CSV      *)
(* extraction.                                                             *)
(*                                                                         *)
(* Data representation                                                     *)
(*   - a JSON value is a tagged record: [t |-> "null"], [t |-> "str",      *)
(*     len |-> n] (a string, by its length in UTF-16 units),               *)
(*     [t |-> "num", v |-> k] (the number k/10: one decimal digit is kept  *)
(*     so that non-integers exist), [t |-> "obj", f |-> keys -> values];   *)
(*   - a text (a CSV cell, a header) is a sequence of one-character        *)
(*     strings.                                                            *)
(***************************************************************************)
EXTENDS Integers, Sequences, FiniteSets, TLC

\* ------------------------------------------------------------------------
\* Bounds of the model
\* ------------------------------------------------------------------------

\* Longest array of raw products the AI reply carries.
MaxRaw == 3

\* Longest header list and candidate list pickHeader is applied to.
MaxHeaders == 3

MaxWanted == 2

\* Longest column of arbitrary cells detectColumnTypes is applied to.
MaxColumnRows == 2

\* Longest rawData of arbitrary rows the header row scan is applied to.
MaxRawRows == 3

\* Most data rows of a content tryExtractProductsFromCsv is applied to.
MaxDataRows == 2

\* Most rows of arbitrary cells the field mapping is resolved for.
MaxSheetRows == 2

\* Most elements of the array the AI output parses to when two requests
\* are served.
MaxConcurrentRaw == 1

\* ------------------------------------------------------------------------
\* JSON values
\* ------------------------------------------------------------------------

\* Numbers are kept in tenths: JNum(1505) is 150.5.
JNull == [t |-> "null"]
JStr(n) == [t |-> "str", len |-> n]
JNum(k) == [t |-> "num", v |-> k]
JObj(fields) == [t |-> "obj", f |-> fields]

\* ------------------------------------------------------------------------
\* ProductSchema (index.ts 8-24)
\* ------------------------------------------------------------------------

\* z.number().min(0).max(100000000)
MaxPrice == 100000000

\* The string fields of ProductSchema and their .max(); name also has .min(1).
StringMax ==
  [ name |-> 500, product_id |-> 100, category |-> 200, supplier |-> 200,
    unit |-> 50, barcode |-> 100, item_code |-> 100, description |-> 2000,
    packing_inner |-> 100 ]

PriceFields == {"purchase_price", "selling_price", "mrp_price", "without_tax_price"}

SchemaKeys ==
  DOMAIN StringMax \cup PriceFields \cup {"stock_qty", "packing_final_price"}

\* z.string().max(m), with .min(1) for name
StringOk(v, lo, hi) == v.t = "str" /\ v.len >= lo /\ v.len <= hi

\* z.number().min(0).max(100000000)
NumberOk(v) == v.t = "num" /\ v.v >= 0 /\ v.v <= MaxPrice * 10

\* z.number().int().min(0).max(100000000)
IntOk(v) == NumberOk(v) /\ v.v % 10 = 0

\* One key of the schema against the value the object holds for it.
\* Every key but name is .optional().nullable().
FieldOk(k, v) ==
  IF k = "name" THEN StringOk(v, 1, StringMax[k])
  ELSE \/ v.t = "null"
       \/ k \in DOMAIN StringMax /\ StringOk(v, 0, StringMax[k])
       \/ k \in PriceFields /\ NumberOk(v)
       \/ k = "stock_qty" /\ IntOk(v)
       \/ k = "packing_final_price" /\ (StringOk(v, 0, 100) \/ NumberOk(v))

\* ProductSchema.parse(product) does not throw.
SchemaAccepts(p) ==
  /\ p.t = "obj"
  /\ "name" \in DOMAIN p.f
  /\ \A k \in DOMAIN p.f \cap SchemaKeys : FieldOk(k, p.f[k])

\* The value ProductSchema.parse returns: z.object keeps the keys of the
\* schema and strips every other key.
SchemaParse(p) ==
  JObj([k \in DOMAIN p.f \cap SchemaKeys |-> p.f[k]])

\* validateAndSanitizeProducts as it would be if the first invalid element
\* ended the loop instead of being skipped.
RECURSIVE validateUntilInvalid(_)
validateUntilInvalid(rawProducts) ==
  IF rawProducts = <<>> THEN <<>>
  ELSE IF SchemaAccepts(Head(rawProducts))
  THEN << SchemaParse(Head(rawProducts)) >> \o validateUntilInvalid(Tail(rawProducts))
  ELSE <<>>

\* validateAndSanitizeProducts (index.ts 29-44): the loop pushes the parsed
\* copy of each element the schema accepts and skips the others.
RECURSIVE validateAndSanitizeProducts(_)
validateAndSanitizeProducts(rawProducts) ==
  IF rawProducts = <<>> THEN <<>>
  ELSE IF SchemaAccepts(Head(rawProducts))
  THEN << SchemaParse(Head(rawProducts)) >> \o validateAndSanitizeProducts(Tail(rawProducts))
  ELSE validateAndSanitizeProducts(Tail(rawProducts))

\* ------------------------------------------------------------------------
\* Texts: sequences of one-character strings
\* ------------------------------------------------------------------------

LowerLetters ==
  << "a", "b", "c", "d", "e", "f", "g", "h", "i", "j", "k", "l", "m",
     "n", "o", "p", "q", "r", "s", "t", "u", "v", "w", "x", "y", "z" >>

UpperLetters ==
  << "A", "B", "C", "D", "E", "F", "G", "H", "I", "J", "K", "L", "M",
     "N", "O", "P", "Q", "R", "S", "T", "U", "V", "W", "X", "Y", "Z" >>

DigitChars == << "0", "1", "2", "3", "4", "5", "6", "7", "8", "9" >>

\* /[a-zA-Z]/
IsLetter(c) == \E i \in DOMAIN LowerLetters : c = LowerLetters[i] \/ c = UpperLetters[i]

IsDigit(c) == \E i \in DOMAIN DigitChars : c = DigitChars[i]

DigitVal(c) == (CHOOSE i \in DOMAIN DigitChars : c = DigitChars[i]) - 1

\* \s
IsSpace(c) == c \in {" ", "\t", "\n", "\r"}

Min(S) == CHOOSE x \in S : \A y \in S : x <= y

\* null and undefined: a reserved value that is no text of characters.
Null == << "null" >>

ToLowerChar(c) ==
  IF \E i \in DOMAIN UpperLetters : c = UpperLetters[i]
  THEN LowerLetters[CHOOSE i \in DOMAIN UpperLetters : c = UpperLetters[i]]
  ELSE c

\* String.prototype.toLowerCase
toLowerCase(s) == [i \in 1..Len(s) |-> ToLowerChar(s[i])]

RECURSIVE trimStart(_)
trimStart(s) ==
  IF s # <<>> /\ IsSpace(Head(s)) THEN trimStart(Tail(s)) ELSE s

RECURSIVE trimEnd(_)
trimEnd(s) ==
  IF s # <<>> /\ IsSpace(s[Len(s)]) THEN trimEnd(SubSeq(s, 1, Len(s) - 1)) ELSE s

\* String.prototype.trim
trim(s) == trimEnd(trimStart(s))

\* String.prototype.includes: every text includes the empty text.
includes(s, w) ==
  \E i \in 0..(Len(s) - Len(w)) : SubSeq(s, i + 1, i + Len(w)) = w

\* String.prototype.startsWith
startsWith(s, w) == Len(s) >= Len(w) /\ SubSeq(s, 1, Len(w)) = w

\* String.prototype.substring(0, n)
substring0(s, n) == SubSeq(s, 1, IF Len(s) < n THEN Len(s) ELSE n)

RECURSIVE DecimalValue(_)
DecimalValue(s) ==
  IF s = <<>> THEN 0
  ELSE DecimalValue(SubSeq(s, 1, Len(s) - 1)) * 10 + DigitVal(s[Len(s)])

\* String(n) for a natural number n
RECURSIVE DecimalText(_)
DecimalText(n) ==
  IF n < 10 THEN << DigitChars[n + 1] >>
  ELSE DecimalText(n \div 10) \o << DigitChars[(n % 10) + 1] >>

\* Number(s) of JavaScript on the decimal forms [+-]digits[.digits] and
\* their exponent forms [+-]digits[.digits](e|E)[+-]digits: Number("") is 0
\* and every other text is NaN. The value is in tenths; decimal digits
\* after the first are dropped (the cells of the model carry at most one
\* significant decimal digit).
NaN == [finite |-> FALSE, v |-> 0]

IsDecimal(body) ==
  /\ \A i \in 1..Len(body) : IsDigit(body[i]) \/ body[i] = "."
  /\ Cardinality({i \in 1..Len(body) : body[i] = "."}) <= 1
  /\ \E i \in 1..Len(body) : IsDigit(body[i])

\* Position of the decimal point, or one past the end.
DotIndex(body) == Min({i \in 1..Len(body) : body[i] = "."} \cup {Len(body) + 1})

Tenths(body, dot) ==
  DecimalValue(SubSeq(body, 1, dot - 1)) * 10
    + (IF dot + 1 <= Len(body) THEN DigitVal(body[dot + 1]) ELSE 0)

\* Position of the exponent mark, or one past the end.
ExpIndex(body) == Min({i \in 1..Len(body) : body[i] \in {"e", "E"}} \cup {Len(body) + 1})

\* The signed integer after the exponent mark; 0 - 1000 stands for a text
\* that is no exponent.
ExponentValue(x) ==
  IF x = <<>> THEN 0 - 1000
  ELSE IF Head(x) \in {"+", "-"} /\ Len(x) = 1 THEN 0 - 1000
  ELSE IF \E i \in 2..Len(x) : ~IsDigit(x[i]) THEN 0 - 1000
  ELSE IF Head(x) = "-" THEN 0 - DecimalValue(Tail(x))
  ELSE IF Head(x) = "+" THEN DecimalValue(Tail(x))
  ELSE IF IsDigit(Head(x)) THEN DecimalValue(x)
  ELSE 0 - 1000

\* t * 10^x
RECURSIVE Scaled(_, _)
Scaled(t, x) ==
  IF x = 0 THEN t
  ELSE IF x > 0 THEN Scaled(t * 10, x - 1)
  ELSE Scaled(t \div 10, x + 1)

\* mantissa (e|E) exponent, the mark at position e
Scientific(body, e, sign) ==
  IF e < Len(body) /\ IsDecimal(SubSeq(body, 1, e - 1))
       /\ ExponentValue(SubSeq(body, e + 1, Len(body))) > 0 - 1000
  THEN [finite |-> TRUE,
        v |-> sign * Scaled(Tenths(SubSeq(body, 1, e - 1), DotIndex(SubSeq(body, 1, e - 1))),
                            ExponentValue(SubSeq(body, e + 1, Len(body))))]
  ELSE NaN

Unsigned(body, sign) ==
  IF IsDecimal(body)
  THEN [finite |-> TRUE, v |-> sign * Tenths(body, DotIndex(body))]
  ELSE Scientific(body, ExpIndex(body), sign)

Number(s) ==
  IF s = <<>> THEN [finite |-> TRUE, v |-> 0]
  ELSE IF Head(s) = "-" THEN Unsigned(Tail(s), 0 - 1)
  ELSE IF Head(s) = "+" THEN Unsigned(Tail(s), 1)
  ELSE Unsigned(s, 1)

\* A string value with its characters (the CSV path keeps them).
JText(s) == [t |-> "str", len |-> Len(s), s |-> s]

\* ------------------------------------------------------------------------
\* Value normalizers (index.ts 68-87)
\* ------------------------------------------------------------------------

\* s.replace(/[,₹$]/g, "").replace(/\s+/g, "")
StripCurrency(s) ==
  SelectSeq(s, LAMBDA c : ~(c \in {",", "₹", "$"} \/ IsSpace(c)))

\* return Number.isFinite(n) && n >= 0 ? n : null
NonNegative(n) == IF n.finite /\ n.v >= 0 THEN JNum(n.v) ELSE JNull

toNumber(v) ==
  IF v = Null THEN JNull
  ELSE IF trim(v) = <<>> THEN JNull
  ELSE NonNegative(Number(StripCurrency(trim(v))))

\* Math.trunc of a number in tenths; null propagates
Trunc(n) == IF n = JNull THEN JNull ELSE JNum((n.v \div 10) * 10)

toInt(v) == Trunc(toNumber(v))

\* return s ? s : null
NonEmpty(s) == IF s = <<>> THEN JNull ELSE JText(s)

toText(v) == IF v = Null THEN JNull ELSE NonEmpty(trim(v))

\* ------------------------------------------------------------------------
\* Header Matcher (index.ts 51-66)
\* ------------------------------------------------------------------------

\* h.toLowerCase().replace(/[\s._\-()]+/g, "")
normalizeHeader(h) ==
  SelectSeq(toLowerCase(h),
            LAMBDA c : ~(IsSpace(c) \/ c \in {".", "_", "-", "(", ")"}))

NormalizeAll(hs) == [i \in 1..Len(hs) |-> normalizeHeader(hs[i])]

\* find taken from the end of the header list
FindExactLast(norm, w) ==
  CHOOSE i \in 0..Len(norm) :
    /\ i # 0 => norm[i] = w
    /\ \A k \in (i + 1)..Len(norm) : norm[k] # w

\* normalized.find((h) => h.norm === w): position of the first hit, or 0
FindExact(norm, w) == Min({i \in 1..Len(norm) : norm[i] = w} \cup {Len(norm) + 1}) % (Len(norm) + 1)

\* normalized.find((h) => h.norm.includes(w) || w.includes(h.norm))
FindFuzzy(norm, w) ==
  Min({i \in 1..Len(norm) : includes(norm[i], w) \/ includes(w, norm[i])}
        \cup {Len(norm) + 1}) % (Len(norm) + 1)

\* The first loop over wanted, from candidate j on (index.ts 57-60)
RECURSIVE ExactPhase(_, _, _)
ExactPhase(norm, wanted, j) ==
  IF j > Len(wanted) THEN 0
  ELSE IF FindExact(norm, wanted[j]) # 0 THEN FindExact(norm, wanted[j])
  ELSE ExactPhase(norm, wanted, j + 1)

\* The second loop over wanted, from candidate j on (index.ts 61-64)
RECURSIVE FuzzyPhase(_, _, _)
FuzzyPhase(norm, wanted, j) ==
  IF j > Len(wanted) THEN 0
  ELSE IF FindFuzzy(norm, wanted[j]) # 0 THEN FindFuzzy(norm, wanted[j])
  ELSE FuzzyPhase(norm, wanted, j + 1)

\* One loop over wanted that tries the exact and then the fuzzy test for
\* each candidate in turn
RECURSIVE SinglePass(_, _, _)
SinglePass(norm, wanted, j) ==
  IF j > Len(wanted) THEN 0
  ELSE IF FindExact(norm, wanted[j]) # 0 THEN FindExact(norm, wanted[j])
  ELSE IF FindFuzzy(norm, wanted[j]) # 0 THEN FindFuzzy(norm, wanted[j])
  ELSE SinglePass(norm, wanted, j + 1)

PickIndexSinglePass(norm, wanted) == SinglePass(norm, wanted, 1)

\* Position of the header pickHeader returns, or 0 for null
PickIndex(norm, wanted) ==
  IF ExactPhase(norm, wanted, 1) # 0 THEN ExactPhase(norm, wanted, 1)
  ELSE FuzzyPhase(norm, wanted, 1)

\* hit.raw, or null
HeaderAt(hs, i) == IF i = 0 THEN Null ELSE hs[i]

pickHeader(headers, candidates) ==
  HeaderAt(headers, PickIndex(NormalizeAll(headers), NormalizeAll(candidates)))

\* ------------------------------------------------------------------------
\* Column Type Profiler (index.ts 89-135)
\* ------------------------------------------------------------------------

HasLetter(s) == \E i \in 1..Len(s) : IsLetter(s[i])

looksLikeProductName(v) ==
  v # Null /\ Len(trim(v)) >= 2 /\ HasLetter(trim(v))

\* Number.isFinite(n) && n > 0 && n < 10000000
PriceRange(n) == n.finite /\ n.v > 0 /\ n.v < 10000000 * 10

looksLikePrice(v) ==
  v # Null /\ trim(v) # <<>> /\ PriceRange(Number(StripCurrency(trim(v))))

\* row[h]: the cell of a parsed row under the column label at position i;
\* undefined when the line had fewer cells than the header.
Cell(row, i) == IF i \in 1..Len(row) THEN row[i] ELSE Null

\* rows.slice(0, 100)
SampleSize == 100

\* The chain with the text test before the price test
CellClassTextFirst(val) ==
  IF val = Null THEN "empty"
  ELSE IF trim(val) = <<>> THEN "empty"
  ELSE IF looksLikeProductName(val) THEN "text"
  ELSE IF looksLikePrice(val) THEN "price"
  ELSE "other"

\* The branch of index.ts 121-130 a cell takes; "other" is a cell that is
\* counted nowhere.
CellClass(val) ==
  IF val = Null THEN "empty"
  ELSE IF trim(val) = <<>> THEN "empty"
  ELSE IF looksLikePrice(val) THEN "price"
  ELSE IF looksLikeProductName(val) THEN "text"
  ELSE "other"

\* Every row, without the slice
AllRows(rows) == rows

SampleRows(rows) ==
  SubSeq(rows, 1, IF Len(rows) < SampleSize THEN Len(rows) ELSE SampleSize)

ColumnCells(sampleRows, i) == [n \in 1..Len(sampleRows) |-> Cell(sampleRows[n], i)]

CountClass(cells, class) ==
  Cardinality({n \in 1..Len(cells) : CellClass(cells[n]) = class})

\* The first three text-like values, trimmed and cut to 50 characters
FirstSamples(texts) ==
  [n \in 1..(IF Len(texts) < 3 THEN Len(texts) ELSE 3) |-> substring0(trim(texts[n]), 50)]

ColumnStats(cells) ==
  [ textCount |-> CountClass(cells, "text"),
    priceCount |-> CountClass(cells, "price"),
    emptyCount |-> CountClass(cells, "empty"),
    samples |-> FirstSamples(SelectSeq(cells, LAMBDA val : CellClass(val) = "text")) ]

\* columnStats, by column position
detectColumnTypes(rows, headers) ==
  [i \in 1..Len(headers) |-> ColumnStats(ColumnCells(SampleRows(rows), i))]

\* ------------------------------------------------------------------------
\* File content
\* ------------------------------------------------------------------------

\* A text content is the rows of cells Papa.parse reads from it (header:
\* false, skipEmptyLines: true), followed by `pad` newline characters.
\* The text is the cells joined by commas and the rows by newlines; a cell
\* holding a comma, a quote or a newline is written between quotes.
RECURSIVE SumSeq(_)
SumSeq(ns) == IF ns = <<>> THEN 0 ELSE Head(ns) + SumSeq(Tail(ns))

CellTextLen(c) ==
  Len(c) + (IF \E i \in 1..Len(c) : c[i] \in {",", "\"", "\n"} THEN 2 ELSE 0)

RowTextLen(row) ==
  SumSeq([i \in 1..Len(row) |-> CellTextLen(row[i])]) + (Len(row) - 1)

GridTextLen(grid) ==
  IF grid = <<>> THEN 0
  ELSE SumSeq([i \in 1..Len(grid) |-> RowTextLen(grid[i])]) + (Len(grid) - 1)

\* fileContent.length
ContentLength(c) == GridTextLen(c.grid) + c.pad

\* arrayBuffer.byteLength of the UTF-8 file the content decodes from: the
\* rupee sign takes three bytes, every other character of the model one.
Utf8Length(c) ==
  LET Rupees(cell) == Cardinality({n \in 1..Len(cell) : cell[n] = "₹"})
      InRow(row) == SumSeq([i \in 1..Len(row) |-> Rupees(row[i])])
  IN ContentLength(c) + 2 * SumSeq([i \in 1..Len(c.grid) |-> InRow(c.grid[i])])

\* fileContent.trim() is the empty string
IsBlank(c) ==
  \A i \in 1..Len(c.grid) : Len(c.grid[i]) = 1 /\ trim(c.grid[i][1]) = <<>>

\* Papa.parse(content, {header: false, skipEmptyLines: true}).data
PapaRows(c) == c.grid

\* ------------------------------------------------------------------------
\* Header-Row Locator and header synthesis (index.ts 148-170)
\* ------------------------------------------------------------------------

\* The window of rows the locator examines.
HeaderScanRows == 10

\* row.filter(v => v && String(v).trim().length > 0).length
nonEmptyCount(row) ==
  Cardinality({k \in 1..Len(row) : row[k] # <<>> /\ Len(trim(row[k])) > 0})

\* row.filter(v => v && /[a-zA-Z]/.test(String(v))).length
letterCount(row) ==
  Cardinality({k \in 1..Len(row) : HasLetter(row[k])})

\* The scan without the window: the first qualifying row of all rows
headerRowIndexAnyRow(rawData) ==
  Min({i \in 0..(Len(rawData) - 1) :
         nonEmptyCount(rawData[i + 1]) >= 3 /\ letterCount(rawData[i + 1]) >= 2}
        \cup {Len(rawData)}) % Len(rawData)

\* Zero-based index of the first row of the window with at least 3
\* non-empty cells and at least 2 cells holding a letter; 0 when none.
headerRowIndex(rawData) ==
  Min({i \in 0..((IF Len(rawData) < HeaderScanRows THEN Len(rawData) ELSE HeaderScanRows) - 1) :
         nonEmptyCount(rawData[i + 1]) >= 3 /\ letterCount(rawData[i + 1]) >= 2}
        \cup {HeaderScanRows}) % HeaderScanRows

ColLabel(idx) == << "C", "o", "l", "_" >> \o DecimalText(idx)

SynthLabel(val, idx) == IF Len(val) > 0 /\ Len(val) < 50 THEN val ELSE ColLabel(idx)

SynthLabels(headerRow) ==
  [k \in 1..Len(headerRow) |-> SynthLabel(trim(headerRow[k]), k - 1)]

\* The labels synthesized from the located row (they are only logged).
headers(rawData) == SynthLabels(rawData[headerRowIndex(rawData) + 1])

\* ------------------------------------------------------------------------
\* Tabular Extractor (index.ts 137-306)
\* ------------------------------------------------------------------------

\* transformHeader of the second parse (index.ts 179-186)
Unnamed(trimmed, idx) ==
  IF trimmed = <<>> \/ startsWith(toLowerCase(trimmed), << "u", "n", "n", "a", "m", "e", "d" >>)
  THEN ColLabel(idx)
  ELSE trimmed

transformHeader(h, idx) == Unnamed(trim(h), idx)

\* parsed.meta.fields: Papa.parse with header: true takes the labels from
\* the first row of the content. The labels of a content of the model are
\* pairwise distinct.
parsedHeaders(rawData) ==
  [k \in 1..Len(rawData[1]) |-> transformHeader(rawData[1][k], k - 1)]

\* parsed.data: one object per line after the first; a line with more
\* cells than labels keeps the extra cells under a key that is no label.
parsedRows(rawData) ==
  [n \in 1..(Len(rawData) - 1) |->
     SubSeq(rawData[n + 1], 1,
            IF Len(rawData[n + 1]) < Len(rawData[1]) THEN Len(rawData[n + 1])
            ELSE Len(rawData[1]))]

\* Object.entries(columnStats) enumerates the keys that are array indices
\* (canonical decimal numerals; of at most 9 digits here) in ascending
\* numeric order and then the other keys in insertion order.
IsArrayIndex(h) ==
  /\ Len(h) \in 1..9
  /\ \A i \in 1..Len(h) : IsDigit(h[i])
  /\ (Len(h) = 1 \/ h[1] # "0")

SmallestKey(hs, S) ==
  CHOOSE i \in S : \A j \in S : DecimalValue(hs[i]) <= DecimalValue(hs[j])

RECURSIVE AscendingByValue(_, _)
AscendingByValue(hs, S) ==
  IF S = {} THEN <<>>
  ELSE << SmallestKey(hs, S) >> \o AscendingByValue(hs, S \ {SmallestKey(hs, S)})

EntriesOrder(hs) ==
  AscendingByValue(hs, {i \in 1..Len(hs) : IsArrayIndex(hs[i])})
    \o SelectSeq([i \in 1..Len(hs) |-> i], LAMBDA i : ~IsArrayIndex(hs[i]))

\* The loop of index.ts 205-213 from entry n on: best is the column kept so
\* far (0 for none) and its text count.
RECURSIVE BestNameCol(_, _, _, _, _)
BestNameCol(stats, order, nrows, n, best) ==
  IF n > Len(order) THEN best.col
  ELSE IF stats[order[n]].textCount > best.count
          /\ stats[order[n]].textCount * 100 > 30 * nrows
  THEN BestNameCol(stats, order, nrows, n + 1,
                   [col |-> order[n], count |-> stats[order[n]].textCount])
  ELSE BestNameCol(stats, order, nrows, n + 1, best)

LabelsAt(hs, cols) == [n \in 1..Len(cols) |-> hs[cols[n]]]

\* index.ts 226-232: the columns whose price fill rate exceeds 30%
priceColumns(hs, stats, nrows) ==
  LabelsAt(hs, SelectSeq(EntriesOrder(hs),
                         LAMBDA i : stats[i].priceCount * 100 > 30 * nrows))

\* The candidate names of every canonical field, most preferred first
\* (index.ts 201, 235-261).
NameCandidates ==
  << <<"n", "a", "m", "e">>,
     <<"p", "r", "o", "d", "u", "c", "t", "n", "a", "m", "e">>,
     <<"i", "t", "e", "m">>,
     <<"i", "t", "e", "m", "n", "a", "m", "e">>,
     <<"p", "a", "r", "t", "i", "c", "u", "l", "a", "r", "s">>,
     <<"p", "r", "o", "d", "u", "c", "t">>,
     <<"m", "a", "t", "e", "r", "i", "a", "l">>,
     <<"g", "o", "o", "d", "s">> >>

ProductIdCandidates ==
  << <<"p", "r", "o", "d", "u", "c", "t", "i", "d">>,
     <<"p", "r", "o", "d", "u", "c", "t", "c", "o", "d", "e">>,
     <<"c", "o", "d", "e">>,
     <<"s", "k", "u">>,
     <<"i", "t", "e", "m", "c", "o", "d", "e">>,
     <<"i", "t", "e", "m", "_", "c", "o", "d", "e">>,
     <<"i", "d">>,
     <<"s", "r", "n", "o">>,
     <<"s", "r", "_", "n", "o">>,
     <<"s", "n", "o">>,
     <<"s", "l">>,
     <<"s", "l", "n", "o">> >>

CategoryCandidates ==
  << <<"c", "a", "t", "e", "g", "o", "r", "y">>,
     <<"g", "r", "o", "u", "p">>,
     <<"t", "y", "p", "e">> >>

SupplierCandidates ==
  << <<"s", "u", "p", "p", "l", "i", "e", "r">>,
     <<"b", "r", "a", "n", "d">>,
     <<"m", "a", "k", "e">>,
     <<"c", "o", "m", "p", "a", "n", "y">> >>

PurchaseCandidates ==
  << <<"p", "u", "r", "c", "h", "a", "s", "e", "p", "r", "i", "c", "e">>,
     <<"p", "u", "r", "c", "h", "a", "s", "e", "_", "p", "r", "i", "c", "e">>,
     <<"r", "a", "t", "e">>,
     <<"c", "o", "s", "t">>,
     <<"w", "h", "o", "l", "e", "s", "a", "l", "e">>,
     <<"n", "e", "t">>,
     <<"n", "e", "t", "r", "a", "t", "e">>,
     <<"n", "e", "t", "_", "r", "a", "t", "e">>,
     <<"d", "e", "a", "l", "e", "r", "p", "r", "i", "c", "e">>,
     <<"d", "e", "a", "l", "e", "r", "_", "p", "r", "i", "c", "e">>,
     <<"d", "p">>,
     <<"b", "a", "s", "i", "c", "r", "a", "t", "e">>,
     <<"b", "a", "s", "i", "c", "_", "r", "a", "t", "e">>,
     <<"b", "a", "s", "i", "c", "p", "r", "i", "c", "e">>,
     <<"b", "a", "s", "i", "c">>,
     <<"d", "l", "p">> >>

SellingCandidates ==
  << <<"s", "e", "l", "l", "i", "n", "g", "p", "r", "i", "c", "e">>,
     <<"s", "e", "l", "l", "i", "n", "g", "_", "p", "r", "i", "c", "e">>,
     <<"s", "a", "l", "e", "p", "r", "i", "c", "e">>,
     <<"p", "r", "i", "c", "e">>,
     <<"r", "e", "t", "a", "i", "l">>,
     <<"s", "p">>,
     <<"r", "e", "t", "a", "i", "l", "p", "r", "i", "c", "e">>,
     <<"r", "e", "t", "a", "i", "l", "_", "p", "r", "i", "c", "e">> >>

MrpCandidates ==
  << <<"m", "r", "p">>,
     <<"m", "r", "p", "p", "r", "i", "c", "e">>,
     <<"m", "r", "p", "_", "p", "r", "i", "c", "e">>,
     <<"l", "i", "s", "t", "p", "r", "i", "c", "e">>,
     <<"l", "i", "s", "t", "_", "p", "r", "i", "c", "e">>,
     <<"m", "a", "x", "i", "m", "u", "m", "r", "e", "t", "a", "i", "l", "p", "r", "i", "c", "e">> >>

WithoutTaxCandidates ==
  << <<"w", "i", "t", "h", "o", "u", "t", "t", "a", "x", "p", "r", "i", "c", "e">>,
     <<"w", "i", "t", "h", "o", "u", "t", "_", "t", "a", "x", "_", "p", "r", "i", "c", "e">>,
     <<"t", "a", "x", "a", "b", "l", "e", "v", "a", "l", "u", "e">>,
     <<"b", "a", "s", "e", "p", "r", "i", "c", "e">>,
     <<"t", "a", "x", "a", "b", "l", "e">>,
     <<"b", "e", "f", "o", "r", "e", "t", "a", "x">>,
     <<"e", "x", "c", "l", "t", "a", "x">>,
     <<"e", "x", "c", "l", "_", "t", "a", "x">>,
     <<"n", "e", "t", "t", "a", "x", "a", "b", "l", "e">>,
     <<"n", "e", "t", "_", "t", "a", "x", "a", "b", "l", "e">> >>

QtyCandidates ==
  << <<"q", "t", "y">>,
     <<"q", "u", "a", "n", "t", "i", "t", "y">>,
     <<"s", "t", "o", "c", "k">>,
     <<"s", "t", "o", "c", "k", "q", "t", "y">>,
     <<"s", "t", "o", "c", "k", "_", "q", "t", "y">>,
     <<"b", "a", "l", "a", "n", "c", "e">>,
     <<"a", "v", "a", "i", "l", "a", "b", "l", "e">>,
     <<"i", "n", "s", "t", "o", "c", "k">>,
     <<"i", "n", "_", "s", "t", "o", "c", "k">>,
     <<"c", "l", "o", "s", "i", "n", "g">>,
     <<"c", "l", "o", "s", "i", "n", "g", "s", "t", "o", "c", "k">>,
     <<"c", "l", "o", "s", "i", "n", "g", "_", "s", "t", "o", "c", "k">> >>

UnitCandidates ==
  << <<"u", "n", "i", "t">>,
     <<"u", "o", "m">> >>

BarcodeCandidates ==
  << <<"b", "a", "r", "c", "o", "d", "e">>,
     <<"e", "a", "n">>,
     <<"u", "p", "c">> >>

ItemCodeCandidates ==
  << <<"i", "t", "e", "m", "c", "o", "d", "e">>,
     <<"i", "t", "e", "m", "_", "c", "o", "d", "e">>,
     <<"p", "a", "r", "t", "n", "o">>,
     <<"p", "a", "r", "t", "_", "n", "o">>,
     <<"a", "r", "t", "i", "c", "l", "e", "n", "u", "m", "b", "e", "r">>,
     <<"a", "r", "t", "i", "c", "l", "e", "_", "n", "o">> >>

DescCandidates ==
  << <<"d", "e", "s", "c", "r", "i", "p", "t", "i", "o", "n">>,
     <<"d", "e", "s", "c">>,
     <<"d", "e", "t", "a", "i", "l", "s">>,
     <<"s", "p", "e", "c", "i", "f", "i", "c", "a", "t", "i", "o", "n">>,
     <<"s", "p", "e", "c", "s">> >>

PackInnerCandidates ==
  << <<"p", "a", "c", "k", "i", "n", "g", "i", "n", "n", "e", "r">>,
     <<"p", "a", "c", "k", "i", "n", "g", "_", "i", "n", "n", "e", "r">>,
     <<"i", "n", "n", "e", "r", "p", "a", "c", "k">>,
     <<"i", "n", "n", "e", "r">>,
     <<"p", "a", "c", "k", "o", "f">>,
     <<"p", "a", "c", "k", "_", "o", "f">>,
     <<"m", "o", "q">>,
     <<"m", "i", "n", "q", "t", "y">>,
     <<"p", "a", "c", "k", "i", "n", "g">> >>

PackFinalCandidates ==
  << <<"p", "a", "c", "k", "i", "n", "g", "f", "i", "n", "a", "l", "p", "r", "i", "c", "e">>,
     <<"p", "a", "c", "k", "i", "n", "g", "_", "f", "i", "n", "a", "l", "_", "p", "r", "i", "c", "e">>,
     <<"p", "a", "c", "k", "p", "r", "i", "c", "e">>,
     <<"p", "a", "c", "k", "i", "n", "g", "p", "r", "i", "c", "e">>,
     <<"f", "i", "n", "a", "l", "p", "r", "i", "c", "e">>,
     <<"b", "o", "x", "p", "r", "i", "c", "e">>,
     <<"b", "o", "x", "_", "p", "r", "i", "c", "e">> >>


\* !h of a column label: null or the empty string
Falsy(h) == h = Null \/ h = <<>>

\* index.ts 201-218: the name column by header, else the best text column
NameColumn(hs, stats, nrows, byName) ==
  IF ~Falsy(byName) THEN byName
  ELSE HeaderAt(hs, BestNameCol(stats, EntriesOrder(hs), nrows, 1,
                                [col |-> 0, count |-> 0]))

\* index.ts 246: no price header matched and a price column was detected
UseDetected(hPurchase, hSelling, hMrp, prices) ==
  Falsy(hPurchase) /\ Falsy(hSelling) /\ Falsy(hMrp) /\ Len(prices) > 0

\* index.ts 240-253
PriceMapping(hPurchase, hSelling, hMrp, prices) ==
  [ purchase_price |-> hPurchase,
    selling_price |-> IF UseDetected(hPurchase, hSelling, hMrp, prices)
                      THEN prices[1] ELSE hSelling,
    mrp_price |-> IF UseDetected(hPurchase, hSelling, hMrp, prices) /\ Len(prices) > 1
                  THEN prices[2] ELSE hMrp ]

MappingWith(hs, stats, nrows) ==
  [ name |-> NameColumn(hs, stats, nrows, pickHeader(hs, NameCandidates)),
    product_id |-> pickHeader(hs, ProductIdCandidates),
    category |-> pickHeader(hs, CategoryCandidates),
    supplier |-> pickHeader(hs, SupplierCandidates),
    without_tax_price |-> pickHeader(hs, WithoutTaxCandidates),
    stock_qty |-> pickHeader(hs, QtyCandidates),
    unit |-> pickHeader(hs, UnitCandidates),
    barcode |-> pickHeader(hs, BarcodeCandidates),
    item_code |-> pickHeader(hs, ItemCodeCandidates),
    description |-> pickHeader(hs, DescCandidates),
    packing_inner |-> pickHeader(hs, PackInnerCandidates),
    packing_final_price |-> pickHeader(hs, PackFinalCandidates) ]
  @@ PriceMapping(pickHeader(hs, PurchaseCandidates),
                  pickHeader(hs, SellingCandidates),
                  pickHeader(hs, MrpCandidates),
                  priceColumns(hs, stats, nrows))

\* The FieldMapping (index.ts 197-261): for every canonical field the
\* column label it reads, or Null.
FieldMapping(hs, rows) == MappingWith(hs, detectColumnTypes(rows, hs), Len(rows))

\* r[h] for a column label h
RowValue(hs, r, h) == Cell(r, Min({i \in 1..Len(hs) : hs[i] = h}))

TotalText == << "t", "o", "t", "a", "l" >>

\* The labels of header and total rows compared by equality (index.ts 273-274)
NonProductLabels ==
  { << "n", "a", "m", "e" >>,
    << "p", "r", "o", "d", "u", "c", "t", " ", "n", "a", "m", "e" >>,
    << "i", "t", "e", "m" >>,
    << "p", "a", "r", "t", "i", "c", "u", "l", "a", "r", "s" >>,
    << "d", "e", "s", "c", "r", "i", "p", "t", "i", "o", "n" >> }

\* index.ts 272-274 on name.toLowerCase()
LooksLikeTotal(nameLower) ==
  \/ includes(nameLower, TotalText)
  \/ includes(nameLower, << "g", "r", "a", "n", "d", " " >> \o TotalText)
  \/ nameLower \in NonProductLabels

\* index.ts 267-276: the row is dropped
SkipRow(name) ==
  IF name = JNull THEN TRUE
  ELSE name.len < 2 \/ LooksLikeTotal(toLowerCase(name.s))

\* The normalizer of a canonical field (index.ts 279-293)
FieldValue(k, cell) ==
  IF k \in PriceFields THEN toNumber(cell)
  ELSE IF k = "stock_qty" THEN toInt(cell)
  ELSE toText(cell)

AllFields(hs, m, r) ==
  [k \in DOMAIN m |->
     IF Falsy(m[k]) THEN JNull ELSE FieldValue(k, RowValue(hs, r, m[k]))]

\* The record with its null-valued keys left in place
KeepNulls(product) == JObj(product)

\* index.ts 297-299: delete the keys whose value is null
DropNulls(product) ==
  JObj([k \in {x \in DOMAIN product : product[x] # JNull} |-> product[k]])

\* index.ts 278-301: the record of one row
BuildProduct(hs, m, r) == DropNulls(AllFields(hs, m, r))

\* The rows up to the first row that is dropped
RECURSIVE MapRowsUntilSkip(_, _, _)
MapRowsUntilSkip(hs, m, rows) ==
  IF rows = <<>> THEN <<>>
  ELSE IF SkipRow(toText(RowValue(hs, Head(rows), m.name))) THEN <<>>
  ELSE << BuildProduct(hs, m, Head(rows)) >> \o MapRowsUntilSkip(hs, m, Tail(rows))

\* rows.map(...).filter(Boolean) (index.ts 265-303)
RECURSIVE MapRows(_, _, _)
MapRows(hs, m, rows) ==
  IF rows = <<>> THEN <<>>
  ELSE IF SkipRow(toText(RowValue(hs, Head(rows), m.name)))
  THEN MapRows(hs, m, Tail(rows))
  ELSE << BuildProduct(hs, m, Head(rows)) >> \o MapRows(hs, m, Tail(rows))

ExtractMapped(hs, m, rows) ==
  IF hs = <<>> \/ Falsy(m.name) THEN <<>> ELSE MapRows(hs, m, rows)

ExtractParsed(hs, rows) == ExtractMapped(hs, FieldMapping(hs, rows), rows)

ExtractRaw(rawData) ==
  IF Len(rawData) < 2 THEN <<>>
  ELSE ExtractParsed(parsedHeaders(rawData), parsedRows(rawData))

tryExtractProductsFromCsv(content) == ExtractRaw(PapaRows(content))

\* ------------------------------------------------------------------------
\* The inputs of the request handler
\* ------------------------------------------------------------------------

\* const MAX_FILE_SIZE = 500 * 1024 (index.ts 375)
MAX_FILE_SIZE == 512000

\* fileContent.substring(0, 200000) (index.ts 505)
MaxPromptChars == 200000

\* "S.No,Item Name,MRP,Rate,Qty" and two product rows
GridPriceList ==
  << << <<"S", ".", "N", "o">>, <<"I", "t", "e", "m", " ", "N", "a", "m", "e">>,
        <<"M", "R", "P">>, <<"R", "a", "t", "e">>, <<"Q", "t", "y">> >>,
     << <<"1">>, <<"M", "C", "B", " ", "3", "2", "A">>, <<"2", "0", "0">>,
        <<"1", "5", "0">>, <<"5", "0">> >>,
     << <<"2">>, <<"W", "i", "r", "e", " ", "1", "m", "m">>, <<"9", "0", "0">>,
        <<"₹", "1", ",", "2", "5", "0", ".", "5", "0">>, <<"1", "2", ".", "9">> >> >>

\* A header and a totals line: no product row
GridTotals ==
  << << <<"I", "t", "e", "m">>, <<"R", "a", "t", "e">> >>,
     << <<"T", "o", "t", "a", "l">>, <<"9", "0", "0">> >> >>

\* A single line
GridOneRow ==
  << << <<"I", "t", "e", "m", " ", "N", "a", "m", "e">>, <<"R", "a", "t", "e">> >> >>

Content(grid, pad) == [grid |-> grid, pad |-> pad]

\* body.fileContent when the JSON body has no such key
Undefined == [undefined |-> TRUE]

IsDefined(c) == "grid" \in DOMAIN c

\* The text contents of the model: the empty text, an oversize text of
\* newlines, the price list at and around the size limit in characters and
\* in bytes, and two texts the direct extraction gets no product from.
SampleContents ==
  LET short == GridTextLen(GridPriceList)
  IN { Content(<<>>, 0),
       Content(<<>>, MAX_FILE_SIZE + 1),
       Content(GridPriceList, 0),
       Content(GridPriceList, MAX_FILE_SIZE - short - 2),
       Content(GridPriceList, MAX_FILE_SIZE - short - 1),
       Content(GridPriceList, MAX_FILE_SIZE - short),
       Content(GridPriceList, MAX_FILE_SIZE - short + 1),
       Content(GridTotals, 0),
       Content(GridOneRow, 0) }

\* What `await req.formData()` and `await file.arrayBuffer()` give: a
\* rejection, a form without the file part, a .pdf file of some size or a
\* text file.
FormBodies ==
  { [kind |-> "reject"], [kind |-> "nofile"] }
    \cup { [kind |-> "file", pdf |-> TRUE, byteLength |-> n] :
             n \in {0, 2048, MAX_FILE_SIZE, MAX_FILE_SIZE + 1} }
    \cup { [kind |-> "file", pdf |-> FALSE, byteLength |-> Utf8Length(c), text |-> c] :
             c \in SampleContents }

\* What `await req.json()` gives: a rejection or the body object.
JsonBodies ==
  { [kind |-> "reject"] }
    \cup { [kind |-> "json", fileContent |-> c, fileType |-> t] :
             c \in SampleContents \cup {Undefined}, t \in {"undefined", "csv", "pdf"} }

\* The rows of public.user_roles the store holds for the caller.
RoleTables == { {}, {"viewer"}, {"staff"}, {"admin", "viewer"} }

\* The statuses the AI gateway answers with.
UpstreamStatuses == {200, 400, 402, 429, 500, 503}

\* Raw elements of the array the AI output parses to.
RawSamples ==
  { JObj([name |-> JStr(3)]),
    JObj([name |-> JStr(500), selling_price |-> JNum(MaxPrice * 10),
          stock_qty |-> JNum(500), unit |-> JNull,
          packing_final_price |-> JStr(7)]),
    JObj([name |-> JStr(3), selling_price |-> JNum(1505), brand |-> JStr(7)]),
    JObj([name |-> JStr(3), purchase_price |-> JNum(0 - 1)]),
    JObj([name |-> JStr(3), stock_qty |-> JNum(15)]),
    JObj([name |-> JStr(0)]),
    JObj([selling_price |-> JNum(1500)]),
    JStr(3) }

BoundedSeq(S, n) == UNION { [1..k -> S] : k \in 0..n }

JArr(items) == [t |-> "arr", items |-> items]

\* ------------------------------------------------------------------------
\* The text of the AI reply (index.ts 546-564)
\* ------------------------------------------------------------------------

\* The grave accent (U+0060): a TLA+ string cannot hold it, so the
\* character is a text of its own that is no single character.
Backtick == "backtick"

Fence == << Backtick, Backtick, Backtick >>

\* .replace(/^FENCEjson\s*/i, ''), FENCE standing for three grave accents
StripJsonFence(s) ==
  IF startsWith(toLowerCase(s), Fence \o << "j", "s", "o", "n" >>)
  THEN trimStart(SubSeq(s, 8, Len(s)))
  ELSE s

\* .replace(/^FENCE\s*/i, '')
StripOpeningFence(s) ==
  IF startsWith(s, Fence) THEN trimStart(SubSeq(s, 4, Len(s))) ELSE s

\* .replace(/\s*FENCE$/i, ''): the leftmost match takes the white space
\* before the closing fence with it.
StripClosingFence(s) ==
  IF Len(s) >= 3 /\ SubSeq(s, Len(s) - 2, Len(s)) = Fence
  THEN trimEnd(SubSeq(s, 1, Len(s) - 3))
  ELSE s

cleanedResponse(aiResponse) ==
  trim(StripClosingFence(StripOpeningFence(StripJsonFence(aiResponse))))

\* cleanedResponse.match(/\[[\s\S]*\]/): the leftmost '[' and, the star
\* being greedy, the last ']' after it; Null when there is no such pair.
BracketFrom(s, first) ==
  IF \E j \in (first + 1)..Len(s) : s[j] = "]"
  THEN SubSeq(s, first,
              CHOOSE j \in (first + 1)..Len(s) :
                s[j] = "]" /\ \A k \in (j + 1)..Len(s) : s[k] # "]")
  ELSE Null

jsonMatch(s) ==
  IF \E i \in 1..Len(s) : s[i] = "["
  THEN BracketFrom(s, CHOOSE i \in 1..Len(s) : s[i] = "[" /\ \A k \in 1..(i - 1) : s[k] # "[")
  ELSE Null

\* JSON.parse, for texts of arrays, objects, strings without escapes,
\* unsigned integers and null. A parse ends with the value and the
\* position after it, or fails.
SyntaxError == [ok |-> FALSE]

Parsed(v, next) == [ok |-> TRUE, v |-> v, next |-> next]

RECURSIVE SkipSpace(_, _)
SkipSpace(t, i) ==
  IF i <= Len(t) /\ IsSpace(t[i]) THEN SkipSpace(t, i + 1) ELSE i

RECURSIVE DigitsEnd(_, _)
DigitsEnd(t, i) ==
  IF i <= Len(t) /\ IsDigit(t[i]) THEN DigitsEnd(t, i + 1) ELSE i

ParseNumberTo(t, i, end) ==
  IF t[i] = "0" /\ end > i + 1 THEN SyntaxError
  ELSE Parsed(JNum(DecimalValue(SubSeq(t, i, end - 1)) * 10), end)

RECURSIVE QuoteEnd(_, _)
QuoteEnd(t, i) ==
  IF i <= Len(t) /\ t[i] # "\"" THEN QuoteEnd(t, i + 1) ELSE i

ParseStringTo(t, i, close) ==
  IF close > Len(t) THEN SyntaxError
  ELSE Parsed(JText(SubSeq(t, i + 1, close - 1)), close + 1)

ParseString(t, i) == ParseStringTo(t, i, QuoteEnd(t, i + 1))

RECURSIVE ParseValue(_, _)
RECURSIVE ParseElements(_, _, _)
RECURSIVE ParseMembers(_, _, _)

\* After an element: ',' and the next element, or ']'
AfterElement(t, j, acc) ==
  IF j > Len(t) THEN SyntaxError
  ELSE IF t[j] = "," THEN ParseElements(t, SkipSpace(t, j + 1), acc)
  ELSE IF t[j] = "]" THEN Parsed(JArr(acc), j + 1)
  ELSE SyntaxError

ElementParsed(t, r, acc) ==
  IF r.ok THEN AfterElement(t, SkipSpace(t, r.next), Append(acc, r.v)) ELSE SyntaxError

ParseElements(t, i, acc) == ElementParsed(t, ParseValue(t, i), acc)

ParseArray(t, i) ==
  IF i <= Len(t) /\ t[i] = "]" THEN Parsed(JArr(<< >>), i + 1)
  ELSE ParseElements(t, i, << >>)

\* After a member: ',' and the next member, or '}'
AfterMember(t, j, acc) ==
  IF j > Len(t) THEN SyntaxError
  ELSE IF t[j] = "," THEN ParseMembers(t, SkipSpace(t, j + 1), acc)
  ELSE IF t[j] = "}" THEN Parsed(JObj(acc), j + 1)
  ELSE SyntaxError

\* A later member of the same key replaces the earlier one.
MemberParsed(t, key, r, acc) ==
  IF r.ok
  THEN AfterMember(t, SkipSpace(t, r.next), (key :> r.v) @@ acc)
  ELSE SyntaxError

AfterKey(t, key, j, acc) ==
  IF j <= Len(t) /\ t[j] = ":"
  THEN MemberParsed(t, key, ParseValue(t, SkipSpace(t, j + 1)), acc)
  ELSE SyntaxError

KeyParsed(t, k, acc) ==
  IF k.ok THEN AfterKey(t, k.v.s, SkipSpace(t, k.next), acc) ELSE SyntaxError

ParseMembers(t, i, acc) ==
  IF i <= Len(t) /\ t[i] = "\"" THEN KeyParsed(t, ParseString(t, i), acc)
  ELSE SyntaxError

ParseObject(t, i) ==
  IF i <= Len(t) /\ t[i] = "}" THEN Parsed(JObj(<< >>), i + 1)
  ELSE ParseMembers(t, i, << >>)

ParseValue(t, i) ==
  IF i > Len(t) THEN SyntaxError
  ELSE IF t[i] = "[" THEN ParseArray(t, SkipSpace(t, i + 1))
  ELSE IF t[i] = "{" THEN ParseObject(t, SkipSpace(t, i + 1))
  ELSE IF t[i] = "\"" THEN ParseString(t, i)
  ELSE IF IsDigit(t[i]) THEN ParseNumberTo(t, i, DigitsEnd(t, i))
  ELSE IF i + 3 <= Len(t) /\ SubSeq(t, i, i + 3) = << "n", "u", "l", "l" >>
  THEN Parsed(JNull, i + 4)
  ELSE SyntaxError

\* The whole text is one value, white space around it allowed.
WholeValue(t, r) ==
  IF r.ok /\ SkipSpace(t, r.next) > Len(t)
  THEN [kind |-> "value", value |-> r.v]
  ELSE [kind |-> "unparsable"]

JSONParse(t) == WholeValue(t, ParseValue(t, SkipSpace(t, 1)))

\* index.ts 555-560: the matched span is parsed when there is one, the
\* cleaned text otherwise.
ParseMatched(cleaned, match) ==
  IF match # Null THEN JSONParse(match) ELSE JSONParse(cleaned)

\* index.ts 546-564: what the parse of a content text ends with; a throw
\* inside the try block is caught and reported as the extraction failure.
ParseAiResponse(aiResponse) ==
  ParseMatched(cleanedResponse(aiResponse), jsonMatch(cleanedResponse(aiResponse)))

\* What `await response.json()` of an OK reply gives, the content text by
\* what the handler's parse of it (index.ts 546-564) ends with: a
\* rejection, a reply without choices[0].message.content, a content that
\* is no string, a text the parse throws on, and a text that parses to a
\* value (an array of raw elements, an object, null).
AiReplies ==
  { [kind |-> "reject"], [kind |-> "nochoices"], [kind |-> "nonstring"],
    [kind |-> "unparsable"] }
    \cup { [kind |-> "value", value |-> v] :
             v \in {JNull, JObj([name |-> JStr(3)])}
                     \cup { JArr(a) : a \in BoundedSeq(RawSamples, MaxRaw) } }

\* ------------------------------------------------------------------------
\* State
\* ------------------------------------------------------------------------

Reqs == {"r1", "r2"}

VARIABLES
  env,          \* Deno.env: which of the three settings are set
  req,          \* per request: method, authorization header, content type
  pc,           \* per request: the await point the handler is at
  calls,        \* per request: the steps the handler has taken, in order
  user,         \* per request: what the identity exchange returned
  roleRows,     \* per request: the caller's rows in user_roles
  roleData,     \* per request: what the role query returned
  body,         \* per request: what the body read returned
  fileType,     \* per request: the local fileType
  fileContent,  \* per request: the local fileContent
  fileBase64,   \* per request: length of the local fileBase64
  directProducts, \* per request: what the direct extraction returned
  aiRequest,    \* per request: the messages sent to the AI gateway
  aiStatus,     \* per request: status of the AI gateway's reply (0: none)
  errorText,    \* per request: what reading the gateway's error body gave
  rawProducts,  \* per request: the array parsed from the AI output
  responses,    \* per request: the responses returned, in order
  probe         \* a function of the module applied to an input, with its result

vars == << env, req, pc, calls, user, roleRows, roleData, body, fileType,
           fileContent, fileBase64, directProducts, aiRequest, aiStatus, errorText,
           rawProducts, responses, probe >>

EnvKeys == {"SUPABASE_URL", "SUPABASE_SERVICE_ROLE_KEY", "LOVABLE_API_KEY"}

\* An absent header, an empty one and a bearer credential
AuthHeaders == {"null", "", "Bearer token"}

Requests ==
  [ method : {"OPTIONS", "POST"},
    authorization : AuthHeaders,
    contentType : {"multipart/form-data", "application/json"} ]

NoRequest == [method |-> "none", authorization |-> "null", contentType |-> "none"]

\* The state of a handler that has not run, for the requests in `active`.
Fresh(active) ==
  /\ pc = [r \in Reqs |-> IF r \in active THEN "start" ELSE "absent"]
  /\ \A r \in Reqs \ active : req[r] = NoRequest
  /\ calls = [r \in Reqs |-> <<>>]
  /\ user = [r \in Reqs |-> "none"]
  /\ roleRows = [r \in Reqs |-> {}]
  /\ roleData = [r \in Reqs |-> [outcome |-> "none", rows |-> <<>>]]
  /\ body = [r \in Reqs |-> [kind |-> "none"]]
  /\ fileType = [r \in Reqs |-> "csv"]
  /\ fileContent = [r \in Reqs |-> Content(<<>>, 0)]
  /\ fileBase64 = [r \in Reqs |-> 0]
  /\ directProducts = [r \in Reqs |-> <<>>]
  /\ aiRequest = [r \in Reqs |-> [mode |-> "none", chars |-> 0]]
  /\ aiStatus = [r \in Reqs |-> 0]
  /\ errorText = [r \in Reqs |-> "none"]
  /\ rawProducts = [r \in Reqs |-> <<>>]
  /\ responses = [r \in Reqs |-> <<>>]

\* One request is served.
Init ==
  /\ env \in [EnvKeys -> BOOLEAN]
  /\ req \in [Reqs -> Requests \cup {NoRequest}]
  /\ req["r1"] \in Requests
  /\ Fresh({"r1"})
  /\ probe = [op |-> "none"]

\* ------------------------------------------------------------------------
\* Request Handler (index.ts 308-592)
\* ------------------------------------------------------------------------

\* The body of a Response: null, {error: message} or {products: list}
NullBody == <<>>
ErrorBody(message) == [error |-> message]
ProductsBody(products) == [products |-> products]

\* error.message of an exception that a collaborator or the runtime raised
RejectionMessage == "<message of the rejection>"
TypeErrorMessage == "<message of the TypeError>"

\* What `await response.text()` of a failed AI reply gives
UpstreamErrorBody == "<upstream error body>"

\* return new Response(JSON.stringify(json), {status, headers})
Reply(r, status, json) ==
  /\ responses' = [responses EXCEPT ![r] = Append(@, [status |-> status, body |-> json])]
  /\ pc' = [pc EXCEPT ![r] = "done"]

\* Throw as it would be if the catch answered 400.
ThrowBadRequest(r, message) == Reply(r, 400, ErrorBody(message))

\* Throw as it would be without the catch of index.ts 585-591: the
\* handler ends and no response is returned.
ThrowUncaught(r, message) ==
  /\ pc' = [pc EXCEPT ![r] = "done"]
  /\ UNCHANGED responses

\* The catch of index.ts 585-591: a thrown Error becomes a 500 envelope.
Throw(r, message) == Reply(r, 500, ErrorBody(message))

\* The handler goes on to its next await.
Goto(r, label, call) ==
  /\ pc' = [pc EXCEPT ![r] = label]
  /\ calls' = [calls EXCEPT ![r] = Append(@, call)]
  /\ UNCHANGED responses

\* !authHeader (index.ts 316)
MissingHeader(authHeader) == authHeader \in {"null", ""}

\* StoreConfigMissing as it would be if only the URL were tested.
StoreConfigMissingUrl(e) == ~e["SUPABASE_URL"]

\* !supabaseUrl || !supabaseServiceKey (index.ts 327)
StoreConfigMissing(e) == ~e["SUPABASE_URL"] \/ ~e["SUPABASE_SERVICE_ROLE_KEY"]

\* index.ts 309-335: preflight, the authorization header, the store
\* settings, then the identity exchange is awaited.
Receive(r) ==
  /\ pc[r] = "start"
  /\ IF req[r].method = "OPTIONS"
     THEN Reply(r, 200, NullBody) /\ UNCHANGED calls
     ELSE IF MissingHeader(req[r].authorization)
     THEN Reply(r, 401, ErrorBody("Authentication required")) /\ UNCHANGED calls
     ELSE IF StoreConfigMissing(env)
     THEN Throw(r, "Supabase configuration missing") /\ UNCHANGED calls
     ELSE Goto(r, "getUser", "getUser")
  /\ UNCHANGED << probe, env, req, user, roleRows, roleData, body, fileType, fileContent,
                  fileBase64, directProducts, aiRequest, aiStatus, errorText, rawProducts >>

\* InvalidUser as it would be if `!user` were not tested.
InvalidUserErrorOnly(reply) == reply = "error"

\* userError || !user (index.ts 337)
InvalidUser(reply) == reply # "user"

\* index.ts 335-351: supabase.auth.getUser(jwt) returns a user, an error
\* or neither, or rejects; then the role query is awaited.
GetUserReturns(r) ==
  /\ pc[r] = "getUser"
  /\ \E reply \in {"user", "error", "nouser", "reject"} :
       /\ user' = [user EXCEPT ![r] = reply]
       /\ IF reply = "reject"
          THEN Throw(r, RejectionMessage) /\ UNCHANGED calls
          ELSE IF InvalidUser(reply)
          THEN Reply(r, 401, ErrorBody("Invalid or expired authentication token"))
               /\ UNCHANGED calls
          ELSE Goto(r, "roleLookup", "roleLookup")
  /\ UNCHANGED << probe, env, req, roleRows, roleData, body, fileType, fileContent,
                  fileBase64, directProducts, aiRequest, aiStatus, errorText, rawProducts >>

\* QueryRoles as it would be without .in('role', ['admin', 'staff']).
QueryRolesUnfiltered(table) ==
  IF table = {} THEN { <<>> } ELSE { << role >> : role \in table }

\* The query of index.ts 346-351 on the caller's rows:
\* .in('role', ['admin', 'staff']).limit(1) gives at most one row, and
\* only an admin or staff row.
QueryRoles(table) ==
  LET matching == table \cap {"admin", "staff"}
  IN IF matching = {} THEN { <<>> } ELSE { << role >> : role \in matching }

\* roleError || !roleData || roleData.length === 0 (index.ts 353)
NoWritePermission(outcome, rows) == outcome = "error" \/ Len(rows) = 0

\* index.ts 346-378 and 415: the role gate, the AI key, then the body is
\* read.
RoleLookupReturns(r, tables) ==
  /\ pc[r] = "roleLookup"
  /\ \E table \in tables, outcome \in {"data", "error", "reject"} :
     \E rows \in (IF outcome = "data" THEN QueryRoles(table) ELSE { <<>> }) :
       /\ roleRows' = [roleRows EXCEPT ![r] = table]
       /\ roleData' = [roleData EXCEPT ![r] = [outcome |-> outcome, rows |-> rows]]
       /\ IF outcome = "reject"
          THEN Throw(r, RejectionMessage) /\ UNCHANGED calls
          ELSE IF NoWritePermission(outcome, rows)
          THEN Reply(r, 403, ErrorBody("You do not have permission to import files. Admin or staff role required."))
               /\ UNCHANGED calls
          ELSE IF ~env["LOVABLE_API_KEY"]
          THEN Throw(r, "LOVABLE_API_KEY is not configured") /\ UNCHANGED calls
          ELSE Goto(r, "readBody", "readBody")
  /\ UNCHANGED << probe, env, req, user, body, fileType, fileContent, fileBase64, directProducts,
                  aiRequest, aiStatus, errorText, rawProducts >>

\* btoa of n bytes: the length of fileBase64
Base64Length(n) == 4 * ((n + 2) \div 3)

\* index.ts 377-427: the locals the body gives, or the response that ends
\* the request.
ParseBody(b) ==
  LET locals(ft, fc, fb) ==
        [result |-> "ok", fileType |-> ft, fileContent |-> fc, fileBase64 |-> fb]
      reply(status, message) ==
        [result |-> "reply", status |-> status, message |-> message]
  IN IF b.kind = "reject" THEN reply(500, RejectionMessage)
     ELSE IF b.kind = "nofile" THEN reply(500, "No file uploaded")
     ELSE IF b.kind = "file"
     THEN IF b.byteLength > MAX_FILE_SIZE
          THEN reply(413, "File size exceeds 500KB limit. Please upload a smaller file.")
          ELSE IF b.pdf THEN locals("pdf", Content(<<>>, 0), Base64Length(b.byteLength))
          ELSE locals("csv", b.text, 0)
     ELSE IF IsDefined(b.fileContent) /\ ContentLength(b.fileContent) > 0
             /\ ContentLength(b.fileContent) > MAX_FILE_SIZE
     THEN reply(413, "File content exceeds 500KB limit. Please upload a smaller file.")
     ELSE locals(IF b.fileType = "undefined" THEN "csv" ELSE b.fileType, b.fileContent, 0)

\* fileType === 'csv' && fileContent?.trim()
TakesFastPath(ft, fc) == ft = "csv" /\ IsDefined(fc) /\ ~IsBlank(fc)

\* index.ts 482-521: the messages for the AI gateway and the fetch; the
\* text message reads fileContent.substring and throws on undefined.
CallAi(ft, fc, fb, made) ==
  IF ft = "pdf" /\ fb > 0
  THEN [result |-> "fetch", calls |-> made \o << "aiCall" >>,
        aiRequest |-> [mode |-> "multimodal", chars |-> fb]]
  ELSE IF ~IsDefined(fc)
  THEN [result |-> "throw", message |-> TypeErrorMessage, calls |-> made]
  ELSE [result |-> "fetch", calls |-> made \o << "aiCall" >>,
        aiRequest |-> [mode |-> "text",
                       chars |-> IF ContentLength(fc) < MaxPromptChars
                                 THEN ContentLength(fc) ELSE MaxPromptChars]]

\* FastPath as it would be if the extracted products were not returned.
FastPathIgnored(ft, fc, fb, found) == CallAi(ft, fc, fb, << "extract" >>)

\* index.ts 433-440: the reply of the fast path when it found products
FastPath(ft, fc, fb, found) ==
  IF Len(found) > 0
  THEN [result |-> "reply", status |-> 200, products |-> found,
        calls |-> << "extract" >>]
  ELSE CallAi(ft, fc, fb, << "extract" >>)

\* The exception of the extraction passed on to the handler's catch
RethrownExtraction(ft, fc, fb) ==
  [result |-> "throw", message |-> RejectionMessage, calls |-> << "extract" >>]

\* index.ts 441-443: an exception raised inside the try block (by the
\* imported parser) is caught and logged, and the handler goes on to the
\* AI gateway.
CaughtExtraction(ft, fc, fb) == CallAi(ft, fc, fb, << "extract", "warn" >>)

\* index.ts 430-521: the direct extraction of a CSV, its reply when it
\* finds products, and otherwise the call of the AI gateway. `thrown`
\* tells whether the extraction raised an exception.
Dispatch(ft, fc, fb, thrown) ==
  IF TakesFastPath(ft, fc)
  THEN IF thrown THEN CaughtExtraction(ft, fc, fb)
       ELSE FastPath(ft, fc, fb, tryExtractProductsFromCsv(fc))
  ELSE CallAi(ft, fc, fb, <<>>)

\* const directProducts (index.ts 433); empty when the fast path is not
\* taken or the extraction raised an exception.
DirectProducts(ft, fc, thrown) ==
  IF TakesFastPath(ft, fc) /\ ~thrown THEN tryExtractProductsFromCsv(fc) ELSE <<>>

\* The handler after the fast path: its reply, a throw, or the fetch.
AfterDispatch(r, d) ==
  /\ calls' = [calls EXCEPT ![r] = @ \o d.calls]
  /\ IF d.result = "reply"
     THEN Reply(r, d.status, ProductsBody(d.products)) /\ UNCHANGED aiRequest
     ELSE IF d.result = "throw"
     THEN Throw(r, d.message) /\ UNCHANGED aiRequest
     ELSE /\ aiRequest' = [aiRequest EXCEPT ![r] = d.aiRequest]
          /\ pc' = [pc EXCEPT ![r] = "fetch"]
          /\ UNCHANGED responses

\* The handler after the body was parsed.
AfterBody(r, parsed, thrown) ==
  IF parsed.result = "reply"
  THEN /\ Reply(r, parsed.status, ErrorBody(parsed.message))
       /\ UNCHANGED << calls, fileType, fileContent, fileBase64, directProducts,
                       aiRequest >>
  ELSE /\ fileType' = [fileType EXCEPT ![r] = parsed.fileType]
       /\ fileContent' = [fileContent EXCEPT ![r] = parsed.fileContent]
       /\ fileBase64' = [fileBase64 EXCEPT ![r] = parsed.fileBase64]
       /\ directProducts' = [directProducts EXCEPT ![r] =
                               DirectProducts(parsed.fileType, parsed.fileContent, thrown)]
       /\ AfterDispatch(r, Dispatch(parsed.fileType, parsed.fileContent,
                                    parsed.fileBase64, thrown))

\* index.ts 378-521: the body read returns; size check, fast path, AI call.
BodyReturns(r, forms, jsons) ==
  /\ pc[r] = "readBody"
  /\ \E b \in (IF req[r].contentType = "multipart/form-data" THEN forms ELSE jsons) :
       /\ body' = [body EXCEPT ![r] = b]
       /\ \E thrown \in BOOLEAN : AfterBody(r, ParseBody(b), thrown)
  /\ UNCHANGED << probe, env, req, user, roleRows, roleData, aiStatus, errorText,
                  rawProducts >>

\* response.ok
IsOk(status) == status >= 200 /\ status <= 299

\* index.ts 511-541: the fetch rejects or the gateway answers with a status.
AiReturns(r, statuses) ==
  /\ pc[r] = "fetch"
  /\ \E status \in statuses \cup {0} :
       /\ aiStatus' = [aiStatus EXCEPT ![r] = status]
       /\ IF status = 0
          THEN Throw(r, RejectionMessage) /\ UNCHANGED calls
          ELSE IF IsOk(status) THEN Goto(r, "aiJson", "aiJson")
          ELSE IF status = 429
          THEN Reply(r, 429, ErrorBody("Rate limit exceeded. Please try again later."))
               /\ UNCHANGED calls
          ELSE IF status = 402
          THEN Reply(r, 402, ErrorBody("Payment required. Please add credits to your Lovable AI workspace."))
               /\ UNCHANGED calls
          ELSE Goto(r, "aiErrorText", "aiErrorText")
  /\ UNCHANGED << probe, env, req, user, roleRows, roleData, body, fileType, fileContent,
                  fileBase64, directProducts, aiRequest, errorText, rawProducts >>

\* FailureMessage as it would be if the error body were thrown.
FailureMessageLeaked(text) == text

\* The message thrown once the error body was read (index.ts 536-538).
FailureMessage(text) == "Failed to process file with AI"

\* index.ts 536-538: `await response.text()` returns the error body, which
\* is logged, or rejects.
AiErrorTextReturns(r) ==
  /\ pc[r] = "aiErrorText"
  /\ \E text \in {"reject", UpstreamErrorBody} :
       /\ errorText' = [errorText EXCEPT ![r] = text]
       /\ IF text = "reject" THEN Throw(r, RejectionMessage)
          ELSE Throw(r, FailureMessage(text))
  /\ UNCHANGED << probe, env, req, calls, user, roleRows, roleData, body, fileType,
                  fileContent, fileBase64, directProducts, aiRequest, aiStatus, rawProducts >>

\* Validated as it would be without the test of index.ts 575.
ValidatedUnchecked(raw, products) ==
  [status |-> 200, body |-> ProductsBody(products),
   rawProducts |-> raw, calls |-> << "validate" >>]

\* Validated as it would be if every empty product list were a failure.
ValidatedNonEmptyOnly(raw, products) ==
  IF Len(products) = 0
  THEN [status |-> 500,
        body |-> ErrorBody("Failed to validate product data. Please check the file format."),
        rawProducts |-> raw, calls |-> << "validate" >>]
  ELSE [status |-> 200, body |-> ProductsBody(products),
        rawProducts |-> raw, calls |-> << "validate" >>]

\* index.ts 572-583: the validated products, or the failure when every
\* element of a non-empty array was dropped.
Validated(raw, products) ==
  IF Len(products) = 0 /\ Len(raw) > 0
  THEN [status |-> 500,
        body |-> ErrorBody("Failed to validate product data. Please check the file format."),
        rawProducts |-> raw, calls |-> << "validate" >>]
  ELSE [status |-> 200, body |-> ProductsBody(products),
        rawProducts |-> raw, calls |-> << "validate" >>]

Thrown(message) ==
  [status |-> 500, body |-> ErrorBody(message), rawProducts |-> <<>>, calls |-> <<>>]

\* index.ts 541-583: from the reply body to the response.
Finish(reply) ==
  IF reply.kind = "reject" THEN Thrown(RejectionMessage)
  ELSE IF reply.kind = "nochoices" THEN Thrown(TypeErrorMessage)
  ELSE IF reply.kind \in {"nonstring", "unparsable"}
  THEN Thrown("Failed to extract product data. Please ensure the file contains product information.")
  ELSE IF reply.value.t # "arr"
  THEN Thrown("Invalid AI response format. Expected an array of products.")
  ELSE Validated(reply.value.items, validateAndSanitizeProducts(reply.value.items))

\* AfterAiJson as it would be if rawProducts were one variable of the
\* module, written by every handler.
AfterAiJsonShared(r, f) ==
  /\ rawProducts' = [q \in Reqs |-> f.rawProducts]
  /\ calls' = [calls EXCEPT ![r] = @ \o f.calls]
  /\ Reply(r, f.status, f.body)

\* The response and the locals the reply body leads to.
AfterAiJson(r, f) ==
  /\ rawProducts' = [rawProducts EXCEPT ![r] = f.rawProducts]
  /\ calls' = [calls EXCEPT ![r] = @ \o f.calls]
  /\ Reply(r, f.status, f.body)

\* index.ts 541-583: `await response.json()` returns or rejects.
AiJsonReturns(r, replies) ==
  /\ pc[r] = "aiJson"
  /\ \E reply \in replies : AfterAiJson(r, Finish(reply))
  /\ UNCHANGED << probe, env, req, user, roleRows, roleData, body, fileType, fileContent,
                  fileBase64, directProducts, aiRequest, aiStatus, errorText >>

Next ==
  \E r \in Reqs :
    \/ Receive(r)
    \/ GetUserReturns(r)
    \/ RoleLookupReturns(r, RoleTables)
    \/ BodyReturns(r, FormBodies, JsonBodies)
    \/ AiReturns(r, UpstreamStatuses)
    \/ AiErrorTextReturns(r)
    \/ AiJsonReturns(r, AiReplies)

Spec == Init /\ [][Next]_vars

\* ------------------------------------------------------------------------
\* Two requests served by one isolate
\* ------------------------------------------------------------------------

\* The replies of the collaborators kept to a few of each kind: a caller
\* without role and a staff member; an empty text, a price list and a
\* sheet of totals as content, a PDF of 2048 bytes, a rejected read; every
\* status class of the gateway; and parsed arrays of at most
\* MaxConcurrentRaw elements, a valid and an invalid one.
FewRoleTables == { {}, {"staff"} }

FewContents == { Content(<<>>, 0), Content(GridPriceList, 0), Content(GridTotals, 0) }

FewFormBodies ==
  { [kind |-> "reject"], [kind |-> "nofile"],
    [kind |-> "file", pdf |-> TRUE, byteLength |-> 2048] }
    \cup { [kind |-> "file", pdf |-> FALSE, byteLength |-> Utf8Length(c), text |-> c] :
             c \in FewContents }

FewJsonBodies ==
  { [kind |-> "reject"] }
    \cup { [kind |-> "json", fileContent |-> c, fileType |-> "csv"] : c \in FewContents }

FewStatuses == {200, 402, 429, 500}

FewAiReplies ==
  { [kind |-> "reject"], [kind |-> "nochoices"], [kind |-> "nonstring"],
    [kind |-> "unparsable"] }
    \cup { [kind |-> "value", value |-> v] :
             v \in {JNull, JObj([name |-> JStr(3)])}
                     \cup { JArr(a) : a \in BoundedSeq({ JObj([name |-> JStr(3)]),
                                                         JObj([name |-> JStr(0)]) },
                                                       MaxConcurrentRaw) } }

\* One step of the handler of r, from one await point to the next or to
\* its response.
HandlerStep(r) ==
  \/ Receive(r)
  \/ GetUserReturns(r)
  \/ RoleLookupReturns(r, FewRoleTables)
  \/ BodyReturns(r, FewFormBodies, FewJsonBodies)
  \/ AiReturns(r, FewStatuses)
  \/ AiErrorTextReturns(r)
  \/ AiJsonReturns(r, FewAiReplies)

\* A JSON upload with a bearer credential
JsonUpload ==
  [method |-> "POST", authorization |-> "Bearer token", contentType |-> "application/json"]

\* The isolate serves one request of any kind, or that request and a JSON
\* upload, whose handlers interleave at their await points: the event
\* loop resumes either of them.
ConcurrentInit ==
  /\ env \in [EnvKeys -> BOOLEAN]
  /\ req \in [Reqs -> Requests \cup {NoRequest}]
  /\ req["r1"] \in Requests
  /\ \/ Fresh({"r1"})
     \/ req["r2"] = JsonUpload /\ Fresh(Reqs)
  /\ probe = [op |-> "none"]

ConcurrentNext == \E r \in Reqs : HandlerStep(r)

Concurrent == ConcurrentInit /\ [][ConcurrentNext]_vars

\* Every awaited step returns or rejects: the runtime starts the handler
\* of a received request, and each promise the handler awaits (identity
\* exchange, role lookup, body read, fetch of the AI gateway, read of its
\* body) is eventually settled, after which the event loop resumes the
\* handler.
AwaitsSettle == \A r \in Reqs : WF_vars(HandlerStep(r))

LiveSpec == Init /\ [][ConcurrentNext]_vars /\ AwaitsSettle

\* ------------------------------------------------------------------------
\* The functions of the module applied to inputs
\* ------------------------------------------------------------------------

\* A handler that serves no request.
Idle ==
  /\ env = [k \in EnvKeys |-> TRUE]
  /\ req = [r \in Reqs |-> NoRequest]
  /\ Fresh({})

PureInit == Idle /\ probe = [op |-> "none"]

\* The variables of the handler; an application leaves them alone and
\* records in probe the function, its input and its result.
handlerVars ==
  << env, req, pc, calls, user, roleRows, roleData, body, fileType, fileContent,
     fileBase64, directProducts, aiRequest, aiStatus, errorText, rawProducts,
     responses >>

\* Column labels: two with the same normalized form, one whose normalized
\* form is empty.
ProbeLabels ==
  { << "C", "o", "s", "t", " ", "P", "r", "i", "c", "e" >>,
    << "R", "a", "t", "e" >>,
    << "R", "A", "T", "E", " " >>,
    << "(", " ", ")" >> }

\* Candidate names
ProbeWanted ==
  { << "r", "a", "t", "e" >>,
    << "c", "o", "s", "t" >>,
    << "n", "e", "t", "_", "r", "a", "t", "e" >> }

\* pickHeader(headers, candidates)
PickHeaderStep ==
  /\ probe.op = "none"
  /\ \E hs \in BoundedSeq(ProbeLabels, MaxHeaders), cs \in BoundedSeq(ProbeWanted, MaxWanted) :
    probe' = [op |-> "pickHeader", headers |-> hs, candidates |-> cs,
             result |-> pickHeader(hs, cs)]
  /\ UNCHANGED handlerVars

\* Cell values: null or undefined, and texts
ProbeCells ==
  { Null,
    <<>>,
    << " ", " " >>,
    << "a", "b", "c" >>,
    << "₹", "1", ",", "2", "5", "0", ".", "5", "0" >>,
    << "1", "2", ".", "9" >>,
    << "-", "5" >>,
    << "0" >>,
    << "₹" >>,
    << "1", "e", "3" >>,
    << " ", "4", "2", " " >>,
    << "$", " ", "7" >>,
    << "a" >>,
    << "M", "C", "B", " ", "3", "2", "A" >> }

\* toNumber(v), toInt(v), toText(v)
NormalizeStep ==
  /\ probe.op = "none"
  /\ \E v \in ProbeCells :
    probe' = [op |-> "normalize", v |-> v, number |-> toNumber(v), int |-> toInt(v),
             text |-> toText(v)]
  /\ UNCHANGED handlerVars

\* n rows of one column: the cell a, then the cell b from row k + 1 on
TwoPartColumn(a, k, b, n) == [i \in 1..n |-> << IF i <= k THEN a ELSE b >>]

\* Rows of one column: every column of at most MaxColumnRows cells, 100
\* rows of which 40 hold a price and 60 are empty, and more than 100 rows.
ProbeTables ==
  { [i \in 1..Len(col) |-> << col[i] >>] : col \in BoundedSeq(ProbeCells, MaxColumnRows) }
    \cup { TwoPartColumn(<< "1", "5", "0" >>, 40, <<>>, 100),
           TwoPartColumn(<< "W", "i", "r", "e" >>, 100, << "0" >>, 103),
           TwoPartColumn(<< "W", "i", "r", "e" >>, 101, << "1", "5", "0" >>, 102) }

\* detectColumnTypes(rows, headers) for a table of one column
ProfileStep ==
  /\ probe.op = "none"
  /\ \E rows \in ProbeTables :
    probe' = [op |-> "profile", rows |-> rows,
             stats |-> detectColumnTypes(rows, << << "R", "a", "t", "e" >> >>)]
  /\ UNCHANGED handlerVars

\* Raw rows: a header, a title, numbers, a row with three non-empty cells
\* of which two hold a letter, a row with two non-empty cells
ProbeRawRows ==
  { << << "I", "t", "e", "m" >>, << "R", "a", "t", "e" >>, << "Q", "t", "y" >> >>,
    << << "A", "C", "M", "E", " ", "T", "r", "a", "d", "e", "r", "s" >> >>,
    << << "1" >>, << "2" >>, << "3" >> >>,
    << << "A", "1" >>, <<>>, << "x" >>, << "7" >> >>,
    << << "W", "i", "r", "e" >>, << "1", "0" >>, <<>> >> }

\* n copies of the row `first`, then the rows of `rest`
Preceded(first, n, rest) == [i \in 1..n |-> first] \o rest

\* rawData of at least two rows: short ones, and ones whose first row that
\* qualifies is at index 9, at index 10, or absent among 12 rows
ProbeRawData ==
  { d \in BoundedSeq(ProbeRawRows, MaxRawRows) : Len(d) >= 2 }
    \cup { Preceded(<< << "A", "C", "M", "E", " ", "T", "r", "a", "d", "e", "r", "s" >> >>, 9, << << << "I", "t", "e", "m", " ", "N", "a", "m", "e" >>, << "R", "a", "t", "e" >>, << "Q", "t", "y" >> >>, << << "1" >>, << "2" >>, << "3" >> >> >>),
           Preceded(<< << "A", "C", "M", "E", " ", "T", "r", "a", "d", "e", "r", "s" >> >>, 10, << << << "I", "t", "e", "m", " ", "N", "a", "m", "e" >>, << "R", "a", "t", "e" >>, << "Q", "t", "y" >> >>, << << "1" >>, << "2" >>, << "3" >> >> >>),
           Preceded(<< << "1" >>, << "2" >>, << "3" >> >>, 10, << << << "I", "t", "e", "m", " ", "N", "a", "m", "e" >>, << "R", "a", "t", "e" >>, << "Q", "t", "y" >> >>, << << "A", "1" >>, <<>>, << "x" >>, << "7" >> >> >>),
           Preceded(<< << "A", "C", "M", "E", " ", "T", "r", "a", "d", "e", "r", "s" >> >>, 12, <<>>) }

\* The header row scan of tryExtractProductsFromCsv and the labels
\* synthesized from the row it selects
LocateStep ==
  /\ probe.op = "none"
  /\ \E rawData \in ProbeRawData :
    probe' = [op |-> "locate", rawData |-> rawData, index |-> headerRowIndex(rawData),
             headers |-> headers(rawData), fields |-> parsedHeaders(rawData)]
  /\ UNCHANGED handlerVars

\* Data rows: products, totals, a one-character name, a blank name, a
\* price that is only a currency sign, a label, a row without price cell
ProbeDataRows ==
  { << << "W", "i", "r", "e", " ", "1", "m", "m" >>, << "1", "0" >> >>,
    << << "T", "o", "t", "a", "l" >>, << "9", "0", "0" >> >>,
    << << "t", "O", "t", "A", "l" >>, << "5" >> >>,
    << << "T", "o", "t", "a", "l", " ", "A", "m", "o", "u", "n", "t" >>, << "9", "0", "0" >> >>,
    << << "x" >>, << "3" >> >>,
    << << " " >>, << "4" >> >>,
    << << "M", "C", "B", " ", "3", "2", "A" >>, << "₹" >> >>,
    << << " ", "i", "t", "e", "m", " " >>, << "-", "5" >> >>,
    << << "S", "w", "i", "t", "c", "h" >> >> }

\* Header rows with a name column and price columns: "Sale Price" matches
\* no candidate list but that of selling_price, "Price" is contained by
\* candidates of five fields
ProbeHeaderRows ==
  { << << "I", "t", "e", "m", " ", "N", "a", "m", "e" >>, << "S", "a", "l", "e", " ", "P", "r", "i", "c", "e" >> >>,
    << << "I", "t", "e", "m", " ", "N", "a", "m", "e" >>, << "P", "r", "i", "c", "e" >> >>,
    << << "I", "t", "e", "m", " ", "N", "a", "m", "e" >>, << "R", "a", "t", "e" >>, << "P", "r", "i", "c", "e" >> >> }

\* Contents: a header row and data rows, and contents whose header row is
\* preceded by title rows
ProbeGrids ==
  { << hr >> \o rows : hr \in ProbeHeaderRows, rows \in BoundedSeq(ProbeDataRows, MaxDataRows) }
    \cup { Preceded(<< << "A", "C", "M", "E", " ", "T", "r", "a", "d", "e", "r", "s" >> >>, n, << << << "I", "t", "e", "m", " ", "N", "a", "m", "e" >>, << "R", "a", "t", "e" >>, << "Q", "t", "y" >> >>, << << "W", "i", "r", "e", " ", "1", "m", "m" >>, << "1", "0" >>, << "5" >> >> >>) : n \in 1..2 }

\* tryExtractProductsFromCsv(content)
ExtractStep ==
  /\ probe.op = "none"
  /\ \E grid \in ProbeGrids :
    probe' = [op |-> "extract", rawData |-> grid,
             result |-> tryExtractProductsFromCsv(Content(grid, 0))]
  /\ UNCHANGED handlerVars

\* Header lists of sheets: without a label that matches a candidate; with
\* two such value columns; with a label only the without-tax candidates
\* match; with value columns whose labels are numerals, in descending
\* order; with a label only the MRP candidates match; with labels that
\* candidates of several fields match; with a label whose normalized form
\* is empty.
ProbeSheetHeaders ==
  { << << "L", "a", "b", "e", "l" >>, << "V", "a", "l", "u", "e", " ", "A" >> >>,
    << << "L", "a", "b", "e", "l" >>, << "V", "a", "l", "u", "e", " ", "A" >>, << "V", "a", "l", "u", "e", " ", "B" >> >>,
    << << "L", "a", "b", "e", "l" >>, << "T", "a", "x", "a", "b", "l", "e" >>, << "V", "a", "l", "u", "e", " ", "A" >> >>,
    << << "L", "a", "b", "e", "l" >>, << "2" >>, << "1" >> >>,
    << << "L", "a", "b", "e", "l" >>, << "M", "R", "P" >>, << "V", "a", "l", "u", "e", " ", "A" >> >>,
    << << "I", "t", "e", "m" >>, << "P", "r", "i", "c", "e" >> >>,
    << << "L", "a", "b", "e", "l" >>, << "-" >> >> }

\* Parsed rows: text, price, price; text, text, empty; price, text, price;
\* empty, a cell counted nowhere, price
ProbeSheetRows ==
  { << << "W", "i", "r", "e" >>, << "1", "0" >>, << "2", "0" >> >>,
    << << "C", "a", "b", "l", "e" >>, << "W", "i", "r", "e" >>, <<>> >>,
    << << "1", "0" >>, << "W", "i", "r", "e" >>, << "3", "0" >> >>,
    << <<>>, << "0" >>, << "5" >> >> }

\* n rows: the row a, then the row b from row k + 1 on
TwoPartRows(a, k, b, n) == [i \in 1..n |-> IF i <= k THEN a ELSE b]

\* Sheets: the short ones, sheets of 10 rows of which 3 and 4 hold a text
\* and a price, and a sheet of 200 rows of which the first 40 do
ProbeSheets ==
  { [hs |-> hs, rows |-> rows] :
      hs \in ProbeSheetHeaders,
      rows \in BoundedSeq(ProbeSheetRows, MaxSheetRows) \ {<<>>} }
    \cup { [hs |-> << << "L", "a", "b", "e", "l" >>, << "V", "a", "l", "u", "e", " ", "A" >> >>,
            rows |-> TwoPartRows(<< << "W", "i", "r", "e" >>, << "1", "0" >> >>, k, << <<>>, <<>> >>, 10)] : k \in 3..4 }
    \cup { [hs |-> << << "L", "a", "b", "e", "l" >>, << "V", "a", "l", "u", "e", " ", "A" >> >>,
            rows |-> TwoPartRows(<< << "W", "i", "r", "e" >>, << "1", "0" >> >>, 40, << <<>>, <<>> >>, 200)] }

\* The field mapping of tryExtractProductsFromCsv for the labels and the
\* rows of the second parse
MapStep ==
  /\ probe.op = "none"
  /\ \E sheet \in ProbeSheets :
    probe' = [op |-> "map", hs |-> sheet.hs, rows |-> sheet.rows,
             stats |-> detectColumnTypes(sheet.rows, sheet.hs),
             mapping |-> FieldMapping(sheet.hs, sheet.rows),
             products |-> ExtractParsed(sheet.hs, sheet.rows)]
  /\ UNCHANGED handlerVars

\* Content texts: a fenced array of one object; the same bare; with prose
\* before it; followed by prose that holds brackets; an object without a
\* bracket; prose only; the empty array; an empty array in a fence without
\* language and in one with the language in upper case; an array of two
\* objects; an object that holds an array; nested arrays; null; an array
\* cut short.
ProbeAiTexts ==
  { << Backtick, Backtick, Backtick, "j", "s", "o", "n", "\n", "[", "{", "\"", "n", "a", "m", "e", "\"", ":", "\"", "a", "b", "\"", "}", "]", "\n", Backtick, Backtick, Backtick >>,
    << "[", "{", "\"", "n", "a", "m", "e", "\"", ":", "\"", "a", "b", "\"", "}", "]" >>,
    << "H", "e", "r", "e", ":", " ", "[", "{", "\"", "n", "a", "m", "e", "\"", ":", "\"", "a", "b", "\"", "}", "]" >>,
    << "[", "{", "\"", "n", "a", "m", "e", "\"", ":", "\"", "a", "b", "\"", "}", "]", " ", "s", "e", "e", " ", "[", "1", "]" >>,
    << "{", "\"", "n", "a", "m", "e", "\"", ":", "\"", "a", "b", "\"", "}" >>,
    << "s", "o", "r", "r", "y" >>,
    << "[", "]" >>,
    << Backtick, Backtick, Backtick, "\n", "[", " ", "]", "\n", Backtick, Backtick, Backtick >>,
    << Backtick, Backtick, Backtick, "J", "S", "O", "N", " ", "[", "]", Backtick, Backtick, Backtick >>,
    << "[", "{", "\"", "n", "a", "m", "e", "\"", ":", "\"", "a", "b", "\"", "}", ",", "{", "\"", "n", "a", "m", "e", "\"", ":", "\"", "c", "d", "\"", "}", "]" >>,
    << "{", "\"", "i", "t", "e", "m", "s", "\"", ":", "[", "1", "]", "}" >>,
    << "[", "[", "1", "]", ",", "[", "2", "]", "]" >>,
    << "n", "u", "l", "l" >>,
    << "[", "{", "\"", "n", "a", "m", "e", "\"", ":", "\"", "a", "b", "\"", "}" >> }

ParseAiStep ==
  /\ probe.op = "none"
  /\ \E text \in ProbeAiTexts :
       probe' = [op |-> "aiText", text |-> text,
                 cleaned |-> cleanedResponse(text),
                 match |-> jsonMatch(cleanedResponse(text)),
                 result |-> ParseAiResponse(text)]
  /\ UNCHANGED handlerVars

PureNext ==
  \/ PickHeaderStep
  \/ NormalizeStep
  \/ ProfileStep
  \/ LocateStep
  \/ ExtractStep
  \/ MapStep
  \/ ParseAiStep

Pure == PureInit /\ [][PureNext]_vars

\* ------------------------------------------------------------------------
\* Properties
\* ------------------------------------------------------------------------

\* The handler of r has taken the step `call`.
Made(r, call) == \E i \in DOMAIN calls[r] : calls[r][i] = call

\* The handler of r has returned.
Answered(r) == pc[r] = "done"

NonPreflight(r) == req[r].method = "POST"

\* r was answered once, with this status and {error: message}.
ErrorReply(r, status, message) ==
  /\ Len(responses[r]) = 1
  /\ responses[r][1].status = status
  /\ DOMAIN responses[r][1].body = {"error"}
  /\ responses[r][1].body.error = message

\* r was answered once, with this status and {products: products}.
ProductsReply(r, status, products) ==
  /\ Len(responses[r]) = 1
  /\ responses[r][1].status = status
  /\ DOMAIN responses[r][1].body = {"products"}
  /\ responses[r][1].body.products = products

\* The three gates of the handler of r: header, identity, role.
GatesPassed(r) ==
  /\ req[r].authorization = "Bearer token"
  /\ user[r] = "user"
  /\ roleData[r].outcome = "data"
  /\ Len(roleData[r].rows) >= 1
  /\ \A i \in DOMAIN roleData[r].rows :
       roleData[r].rows[i] \in roleRows[r] \cap {"admin", "staff"}

\* Body parsing, the Tabular Extractor or the AI call has happened.
LaterStep(r) ==
  \/ Made(r, "readBody") \/ Made(r, "extract") \/ Made(r, "aiCall")
  \/ body[r].kind # "none"

\* C1: body parsing, the Tabular Extractor and the AI call happen only in
\* a request whose authorization header was present, whose identity
\* exchange returned a user and whose role lookup returned an admin or
\* staff row, and only after the identity exchange and the role lookup.
C1_GatesBeforeWork ==
  \A r \in Reqs :
    LaterStep(r) =>
      /\ GatesPassed(r)
      /\ Len(calls[r]) >= 3
      /\ SubSeq(calls[r], 1, 3) = << "getUser", "roleLookup", "readBody" >>

\* C1: a request that passed the gates ran the extractor and called the AI.
C1_Witness ==
  \E r \in Reqs : GatesPassed(r) /\ Made(r, "extract") /\ Made(r, "aiCall")

\* C2: a non-preflight request is answered 401 {error} when the header is
\* absent, 401 {error} when the identity exchange gives an error or no
\* user, and 403 {error} when the role lookup reports an error or the
\* caller has no admin or staff row.
C2_AuthFailures ==
  \A r \in Reqs :
    NonPreflight(r) /\ Answered(r) =>
      /\ req[r].authorization \in {"null", ""} =>
           ErrorReply(r, 401, "Authentication required")
      /\ user[r] \in {"error", "nouser"} =>
           ErrorReply(r, 401, "Invalid or expired authentication token")
      /\ ( \/ roleData[r].outcome = "error"
           \/ roleData[r].outcome = "data" /\ roleRows[r] \cap {"admin", "staff"} = {} ) =>
           ErrorReply(r, 403, "You do not have permission to import files. Admin or staff role required.")

\* C2: a caller whose only role is viewer was answered 403.
C2_Witness ==
  \E r \in Reqs :
    /\ roleRows[r] = {"viewer"} /\ roleData[r].outcome = "data"
    /\ Answered(r) /\ responses[r][1].status = 403

\* The size of the payload of a body, in bytes.
PayloadBytes(b) ==
  IF b.kind = "file" THEN b.byteLength
  ELSE IF b.kind = "json" /\ IsDefined(b.fileContent) THEN Utf8Length(b.fileContent)
  ELSE 0

\* C3: an authorized request whose payload is larger than 512000 bytes, on
\* the multipart path or the inline JSON path, is answered 413 and neither
\* the Tabular Extractor nor the AI endpoint is invoked; a payload of
\* exactly 512000 bytes is not answered 413.
C3_OversizeRejected ==
  \A r \in Reqs :
    body[r].kind \in {"file", "json"} =>
      /\ PayloadBytes(body[r]) > MAX_FILE_SIZE =>
           /\ Len(responses[r]) = 1 /\ responses[r][1].status = 413
           /\ ~Made(r, "extract") /\ ~Made(r, "aiCall")
      /\ PayloadBytes(body[r]) = MAX_FILE_SIZE =>
           \A i \in DOMAIN responses[r] : responses[r][i].status # 413

\* C4: when the file type is CSV and the Tabular Extractor returns a
\* non-empty list, the response is 200 with exactly that list and the AI
\* endpoint is not called.
C4_FastPath ==
  \A r \in Reqs :
    Made(r, "extract") /\ fileType[r] = "csv" /\ Len(directProducts[r]) > 0 =>
      /\ Answered(r)
      /\ ProductsReply(r, 200, tryExtractProductsFromCsv(fileContent[r]))
      /\ ~Made(r, "aiCall")
      /\ aiRequest[r].mode = "none" /\ aiStatus[r] = 0

\* C4: the price list was extracted directly and its two products returned.
C4_Witness ==
  \E r \in Reqs :
    /\ Made(r, "extract") /\ ~Made(r, "aiCall")
    /\ fileContent[r].grid = GridPriceList
    /\ Answered(r) /\ responses[r][1].status = 200
    /\ Len(responses[r][1].body.products) = 2

\* The body of r was read and passed the size check.
SizeValid(r) ==
  /\ body[r].kind \in {"file", "json"}
  /\ \A i \in DOMAIN responses[r] : responses[r][i].status # 413

\* C5: in an authorized, size-valid request with all configuration
\* present, the AI endpoint is called if the file type is PDF or the direct
\* extraction of the CSV ran and gave no product, and the products of the
\* response are then those the validator returned.
C5_FallbackCallsAi ==
  \A r \in Reqs :
    SizeValid(r) =>
      /\ ( \/ fileType[r] = "pdf"
           \/ Made(r, "extract") /\ Len(directProducts[r]) = 0 ) =>
           Made(r, "aiCall")
      /\ Made(r, "aiCall") /\ Answered(r) /\ responses[r][1].status = 200 =>
           ProductsReply(r, 200, validateAndSanitizeProducts(rawProducts[r]))

\* C6: when the AI endpoint answers with a non-OK status, the response is
\* 429 for 429, 402 for 402 and 500 otherwise, with the generic message
\* whenever the error body was read; the error body is never in the
\* response.
C6_UpstreamStatusMapping ==
  \A r \in Reqs :
    Answered(r) /\ aiStatus[r] \notin ({0} \cup (200..299)) =>
      /\ Len(responses[r]) = 1
      /\ DOMAIN responses[r][1].body = {"error"}
      /\ responses[r][1].body.error # UpstreamErrorBody
      /\ aiStatus[r] = 429 => responses[r][1].status = 429
      /\ aiStatus[r] = 402 => responses[r][1].status = 402
      /\ aiStatus[r] \notin {429, 402} =>
           /\ responses[r][1].status = 500
           /\ errorText[r] = UpstreamErrorBody =>
                responses[r][1].body.error = "Failed to process file with AI"

\* C6 as stated: every other non-OK status is answered 500 with the
\* generic message.
C6_AlwaysGenericMessage ==
  \A r \in Reqs :
    Answered(r) /\ aiStatus[r] \notin ({0, 429, 402} \cup (200..299)) =>
      ErrorReply(r, 500, "Failed to process file with AI")

\* C6: the gateway answered 503, its error body was read, and the request
\* was answered 500.
C6_Witness ==
  \E r \in Reqs :
    /\ aiStatus[r] = 503 /\ errorText[r] = UpstreamErrorBody
    /\ Answered(r) /\ responses[r][1].status = 500

\* The elements of raw that the schema accepts, in order.
Accepted(raw) == SelectSeq(raw, SchemaAccepts)

\* The parsed copy of every accepted element, in order.
ParsedCopies(raw) ==
  [i \in 1..Len(Accepted(raw)) |-> SchemaParse(Accepted(raw)[i])]

\* Ten raw elements of which three violate the schema.
TenWithThreeInvalid ==
  << JObj([name |-> JStr(3)]),
     JObj([name |-> JStr(3), purchase_price |-> JNum(0 - 1)]),
     JObj([name |-> JStr(4), selling_price |-> JNum(1505)]),
     JObj([name |-> JStr(5)]),
     JObj([name |-> JStr(0)]),
     JObj([name |-> JStr(6), stock_qty |-> JNum(20)]),
     JObj([name |-> JStr(7)]),
     JObj([name |-> JStr(8), stock_qty |-> JNum(15)]),
     JObj([name |-> JStr(9), unit |-> JNull]),
     JObj([name |-> JStr(10)]) >>

\* C7: validateAndSanitizeProducts returns, in input order, the parsed
\* copy (the schema's keys only) of exactly the elements that satisfy
\* ProductSchema: every returned record satisfies the schema, no valid
\* element is dropped, an invalid element is skipped, and the response is
\* 200 with these records when there is one; ten elements with three
\* invalid give seven records and a 200 response.
C7_ValidatorKeepsValid ==
  /\ \A r \in Reqs :
       Made(r, "validate") =>
         /\ validateAndSanitizeProducts(rawProducts[r]) = ParsedCopies(rawProducts[r])
         /\ \A i \in DOMAIN validateAndSanitizeProducts(rawProducts[r]) :
              SchemaAccepts(validateAndSanitizeProducts(rawProducts[r])[i])
         /\ Len(Accepted(rawProducts[r])) > 0 =>
              ProductsReply(r, 200, ParsedCopies(rawProducts[r]))
  /\ Len(validateAndSanitizeProducts(TenWithThreeInvalid)) = 7
  /\ Finish([kind |-> "value", value |-> JArr(TenWithThreeInvalid)]).status = 200

\* C7 as stated: the result is exactly the subsequence of the input whose
\* elements satisfy the schema.
C7_ExactSubsequence ==
  \A r \in Reqs :
    Made(r, "validate") =>
      validateAndSanitizeProducts(rawProducts[r]) = Accepted(rawProducts[r])

\* C7: of three raw elements one was invalid, and two records were
\* returned with status 200.
C7_Witness ==
  \E r \in Reqs :
    /\ Made(r, "validate")
    /\ Len(rawProducts[r]) = 3 /\ Len(Accepted(rawProducts[r])) = 2
    /\ Answered(r) /\ responses[r][1].status = 200
    /\ Len(responses[r][1].body.products) = 2

\* C8: when the array parsed from the AI output is non-empty and no
\* element passes the schema, the response is a 500 error envelope and
\* never a 200.
C8_AllInvalidFails ==
  \A r \in Reqs :
    Made(r, "validate") /\ Len(rawProducts[r]) > 0
      /\ (\A i \in DOMAIN rawProducts[r] : ~SchemaAccepts(rawProducts[r][i])) =>
      /\ ErrorReply(r, 500, "Failed to validate product data. Please check the file format.")
      /\ \A i \in DOMAIN responses[r] : responses[r][i].status # 200

\* C8: two raw elements, both invalid, and the request answered 500.
C8_Witness ==
  \E r \in Reqs :
    /\ Made(r, "validate") /\ Len(rawProducts[r]) = 2
    /\ Accepted(rawProducts[r]) = <<>>
    /\ Answered(r) /\ responses[r][1].status = 500

\* C9: every response to a non-preflight request is 200 with a body that
\* has products and no error, or one of 401, 403, 413, 429, 402, 500 with
\* a body that has error and no products.
C9_Envelope ==
  \A r \in Reqs :
    NonPreflight(r) =>
      /\ Len(responses[r]) <= 1
      /\ Answered(r) <=> Len(responses[r]) = 1
      /\ \A i \in DOMAIN responses[r] :
           \/ /\ responses[r][i].status = 200
              /\ DOMAIN responses[r][i].body = {"products"}
           \/ /\ responses[r][i].status \in {401, 403, 413, 429, 402, 500}
              /\ DOMAIN responses[r][i].body = {"error"}

\* C9: a request failed after the validator had run on raw products, and
\* its response is an error envelope.
C9_Witness ==
  \E r \in Reqs :
    /\ NonPreflight(r) /\ Made(r, "validate") /\ Len(rawProducts[r]) = 3
    /\ Answered(r) /\ responses[r][1].status = 500
    /\ DOMAIN responses[r][1].body = {"error"}

\* C10: a non-preflight request that carries an authorization header is
\* answered 500 when the data-store URL or the data-store credential is
\* absent, and a request that passed the identity and role checks is
\* answered 500 when the AI-gateway key is absent.
C10_MissingConfig ==
  \A r \in Reqs :
    NonPreflight(r) /\ Answered(r) =>
      /\ req[r].authorization = "Bearer token"
           /\ (~env["SUPABASE_URL"] \/ ~env["SUPABASE_SERVICE_ROLE_KEY"]) =>
           ErrorReply(r, 500, "Supabase configuration missing")
      /\ GatesPassed(r) /\ ~env["LOVABLE_API_KEY"] =>
           ErrorReply(r, 500, "LOVABLE_API_KEY is not configured")

\* C10 as stated: with any of the three settings absent, a non-preflight
\* request is answered 500.
C10_AnyMissingIs500 ==
  \A r \in Reqs :
    NonPreflight(r) /\ Answered(r) /\ (\E k \in EnvKeys : ~env[k]) =>
      Len(responses[r]) = 1 /\ responses[r][1].status = 500

\* C10: an admin's request was answered 500 for the absent AI-gateway key.
C10_Witness ==
  \E r \in Reqs :
    /\ GatesPassed(r) /\ ~env["LOVABLE_API_KEY"]
    /\ Answered(r) /\ responses[r][1].status = 500

\* Header i equals candidate j after normalization.
ExactAt(norm, want, i, j) == norm[i] = want[j]

\* Header i contains, or is contained by, candidate j after normalization.
FuzzyAt(norm, want, i, j) == includes(norm[i], want[j]) \/ includes(want[j], norm[i])

NoExactHit(norm, want) ==
  \A j \in DOMAIN want : \A i \in DOMAIN norm : ~ExactAt(norm, want, i, j)

NoFuzzyHit(norm, want) ==
  \A j \in DOMAIN want : \A i \in DOMAIN norm : ~FuzzyAt(norm, want, i, j)

\* j is the earliest candidate some header equals, and i the first header
\* equal to it.
FirstExact(norm, want, i, j) ==
  /\ ExactAt(norm, want, i, j)
  /\ \A k \in 1..(i - 1) : ~ExactAt(norm, want, k, j)
  /\ \A e \in 1..(j - 1) : \A k \in DOMAIN norm : ~ExactAt(norm, want, k, e)

\* j is the earliest candidate with a containing or contained header, and
\* i the first such header.
FirstFuzzy(norm, want, i, j) ==
  /\ FuzzyAt(norm, want, i, j)
  /\ \A k \in 1..(i - 1) : ~FuzzyAt(norm, want, k, j)
  /\ \A e \in 1..(j - 1) : \A k \in DOMAIN norm : ~FuzzyAt(norm, want, k, e)

TwoPhaseResult(norm, want, hs, result) ==
  /\ \A j \in DOMAIN want : \A i \in DOMAIN norm :
       FirstExact(norm, want, i, j) => result = hs[i]
  /\ NoExactHit(norm, want) =>
       \A j \in DOMAIN want : \A i \in DOMAIN norm :
         FirstFuzzy(norm, want, i, j) => result = hs[i]
  /\ NoExactHit(norm, want) /\ NoFuzzyHit(norm, want) => result = Null
  /\ result = Null \/ \E i \in DOMAIN hs : result = hs[i]

\* C11: pickHeader is two-phase. When some header equals some candidate
\* after normalization, the result is the first header equal to the earliest
\* such candidate, whatever fuzzy hits exist; otherwise the result is the
\* first header that contains or is contained by the earliest candidate
\* with such a header; otherwise it is null. The result is null or one of
\* the headers.
C11_TwoPhase ==
  probe.op = "pickHeader" =>
    TwoPhaseResult(NormalizeAll(probe.headers), NormalizeAll(probe.candidates),
                   probe.headers, probe.result)

\* The earliest candidate with an equal header is j; two headers equal it,
\* the first header does not; an earlier candidate has a fuzzy hit; the
\* result is a header equal to candidate j.
ExactOverEarlierFuzzy(norm, want, result, j) ==
  /\ \E i \in DOMAIN norm : FirstExact(norm, want, i, j)
  /\ ~ExactAt(norm, want, 1, j)
  /\ Cardinality({i \in DOMAIN norm : ExactAt(norm, want, i, j)}) >= 2
  /\ \E e \in 1..(j - 1) : \E i \in DOMAIN norm : FuzzyAt(norm, want, i, e)
  /\ result # Null
  /\ normalizeHeader(result) = want[j]

\* C11: pickHeader returned a header equal to a candidate although an
\* earlier candidate has a fuzzy hit on an earlier header.
C11_Witness ==
  /\ probe.op = "pickHeader"
  /\ \E j \in DOMAIN probe.candidates :
       ExactOverEarlierFuzzy(NormalizeAll(probe.headers), NormalizeAll(probe.candidates),
                             probe.result, j)

CostPriceLabel == << "C", "o", "s", "t", " ", "P", "r", "i", "c", "e" >>

RateLabel == << "R", "a", "t", "e" >>

WantedRate == << "r", "a", "t", "e" >>

WantedCost == << "c", "o", "s", "t" >>

\* pickHeader was applied to the headers "Cost Price" and "Rate", in
\* either order.
CostPriceAndRate ==
  /\ probe.op = "pickHeader"
  /\ probe.headers \in {<< CostPriceLabel, RateLabel >>, << RateLabel, CostPriceLabel >>}

\* C12: for the headers "Cost Price" and "Rate", in either order,
\* pickHeader returns "Rate" for the candidates ["rate", "cost"] and also
\* for ["cost", "rate"]: the exact match on "rate" wins over the fuzzy
\* match on "cost" whatever their order in the candidate list. The fuzzy
\* match "Cost Price" is returned when "rate" is not a candidate.
C12_ExactWinsAnyOrder ==
  CostPriceAndRate =>
    /\ probe.candidates \in {<< WantedRate, WantedCost >>, << WantedCost, WantedRate >>} =>
         probe.result = RateLabel
    /\ probe.candidates = << WantedCost >> => probe.result = CostPriceLabel

\* C12 as stated: with the candidates ["rate", "cost"] the result is
\* "Rate", and with ["cost", "rate"] it is "Cost Price", in either header
\* order.
C12_CandidateOrderDecides ==
  CostPriceAndRate =>
    /\ probe.candidates = << WantedRate, WantedCost >> => probe.result = RateLabel
    /\ probe.candidates = << WantedCost, WantedRate >> => probe.result = CostPriceLabel

\* C12: "Rate" was returned for the headers ["Cost Price", "Rate"] and the
\* candidates ["cost", "rate"].
C12_Witness ==
  /\ probe.op = "pickHeader"
  /\ probe.headers = << CostPriceLabel, RateLabel >>
  /\ probe.candidates = << WantedCost, WantedRate >>
  /\ probe.result = RateLabel

ItemNameLabel == << "I", "t", "e", "m", " ", "N", "a", "m", "e" >>

TotalAmountName == << "T", "o", "t", "a", "l", " ", "A", "m", "o", "u", "n", "t" >>

\* The extractor was applied to a content whose first line is a header
\* with the name column "Item Name" first.
ExtractedWithNameColumn ==
  /\ probe.op = "extract"
  /\ probe.rawData[1][1] = ItemNameLabel

\* The names of the records the extractor returned, in order.
ResultNames == [i \in 1..Len(probe.result) |-> probe.result[i].f.name.s]

\* C13 as stated: a row whose name is "Total" in any letter case is
\* excluded, and a row whose name only contains it, "Total Amount", is
\* emitted.
C13_TotalsByEquality ==
  ExtractedWithNameColumn =>
    /\ \A i \in 1..Len(probe.result) : toLowerCase(ResultNames[i]) # TotalText
    /\ \A n \in 2..Len(probe.rawData) :
         probe.rawData[n][1] = TotalAmountName =>
           \E i \in 1..Len(probe.result) : ResultNames[i] = TotalAmountName

\* The data lines of the content the extractor was applied to.
DataRows == SubSeq(probe.rawData, 2, Len(probe.rawData))

\* A name of at least 2 characters after trimming that is no label of a
\* header or totals line.
QualifyingName(n) ==
  /\ Len(n) >= 2
  /\ ~includes(toLowerCase(n), TotalText)
  /\ toLowerCase(n) \notin NonProductLabels

QualifyingRow(row) == QualifyingName(trim(row[1]))

\* The trimmed names of the qualifying data lines, in source order.
QualifyingNames ==
  [i \in 1..Len(SelectSeq(DataRows, QualifyingRow)) |->
     trim(SelectSeq(DataRows, QualifyingRow)[i][1])]

SalePriceLabel == << "S", "a", "l", "e", " ", "P", "r", "i", "c", "e" >>

\* The qualifying data lines, in source order: line i is the source of
\* record i.
QualifyingRows == SelectSeq(DataRows, QualifyingRow)

\* The extractor was applied to a content with the header "Item Name,Sale Price":
\* the name column and the selling_price column are the only mapped ones.
ExtractedNameAndPrice ==
  /\ probe.op = "extract"
  /\ probe.rawData[1] = << ItemNameLabel, SalePriceLabel >>

\* The keys of the record of a line with these two columns.
ExpectedKeys(row) ==
  IF toNumber(Cell(row, 2)) = JNull THEN {"name"} ELSE {"name", "selling_price"}

\* C15: no record the extractor emits has a key whose value is null, and
\* with only the name and selling_price columns mapped the keys of a record
\* are name, and selling_price exactly when the normalized price cell is
\* not null; no other key is present.
C15_NoNullKeys ==
  /\ probe.op = "extract" =>
       \A i \in 1..Len(probe.result) :
         \A k \in DOMAIN probe.result[i].f : probe.result[i].f[k] # JNull
  /\ ExtractedNameAndPrice =>
       \A i \in 1..Len(probe.result) :
         /\ DOMAIN probe.result[i].f = ExpectedKeys(QualifyingRows[i])
         /\ "selling_price" \in DOMAIN probe.result[i].f =>
              probe.result[i].f.selling_price = toNumber(Cell(QualifyingRows[i], 2))

\* C15: one record was emitted with exactly the keys name and
\* selling_price, and one, whose price cell is missing or has no
\* non-negative number, with the key name alone.
C15_Witness ==
  /\ ExtractedNameAndPrice
  /\ \E i \in 1..Len(probe.result) :
       DOMAIN probe.result[i].f = {"name", "selling_price"}
  /\ \E i \in 1..Len(probe.result) : DOMAIN probe.result[i].f = {"name"}

\* The text toNumber parses: the trimmed cell without currency signs,
\* commas and whitespace.
Cleaned(v) == StripCurrency(trim(v))

\* The cell holds a number: its cleaned text is a numeric literal.
Parsable(v) == Cleaned(v) # <<>> /\ Number(Cleaned(v)).finite

RupeeAmount == << "₹", "1", ",", "2", "5", "0", ".", "5", "0" >>

\* C16 as stated: toNumber is null for a null, empty or whitespace-only
\* cell, for a cell that holds no number and for a negative number, and the
\* non-negative number otherwise; toInt is toNumber truncated toward zero,
\* null when toNumber is null; toText is the trimmed text, null when that
\* is empty. toNumber("₹1,250.50") = 1250.5, toNumber("") = null,
\* toNumber("abc") = null, toInt("12.9") = 12.
C16_Normalizers ==
  probe.op = "normalize" =>
    /\ probe.v = Null =>
         probe.number = JNull /\ probe.int = JNull /\ probe.text = JNull
    /\ probe.v # Null =>
         /\ probe.number =
              IF Parsable(probe.v) /\ Number(Cleaned(probe.v)).v >= 0
              THEN JNum(Number(Cleaned(probe.v)).v) ELSE JNull
         /\ probe.text = IF trim(probe.v) = <<>> THEN JNull ELSE JText(trim(probe.v))
    /\ probe.int =
         IF probe.number = JNull THEN JNull ELSE JNum((probe.number.v \div 10) * 10)
    /\ probe.v = RupeeAmount => probe.number = JNum(12505)
    /\ probe.v = <<>> => probe.number = JNull
    /\ probe.v = << "a", "b", "c" >> => probe.number = JNull
    /\ probe.v = << "1", "2", ".", "9" >> => probe.int = JNum(120)

\* The number of rows detectColumnTypes samples of the probed table.
SampledCount == IF Len(probe.rows) < 100 THEN Len(probe.rows) ELSE 100

\* The cells of the only column of the sampled rows.
SampledCells == [n \in 1..SampledCount |-> Cell(probe.rows[n], 1)]

IsEmptyCell(val) == val = Null \/ trim(val) = <<>>

\* A cell that is not empty, not price-like and not text-like: "0", "-5",
\* a single letter, a lone currency sign.
Unclassified(val) ==
  ~IsEmptyCell(val) /\ ~looksLikePrice(val) /\ ~looksLikeProductName(val)

\* emptyCount + priceCount + textCount of the column
CountedCells ==
  probe.stats[1].emptyCount + probe.stats[1].priceCount + probe.stats[1].textCount

\* C17: detectColumnTypes counts every sampled cell at most once: for
\* the column, emptyCount + priceCount + textCount plus the number of
\* sampled cells that are neither empty, price-like nor text-like equals
\* the number of sampled rows, min(100, number of rows); the three counts
\* add up to it exactly when no sampled cell is of that fourth kind.
C17_CountsAtMostOnce ==
  probe.op = "profile" =>
    /\ CountedCells
         + Cardinality({n \in 1..SampledCount : Unclassified(SampledCells[n])})
       = SampledCount
    /\ CountedCells <= SampledCount

\* C17 as stated: emptyCount + priceCount + textCount equals the number
\* of sampled rows, whatever the cell contents.
C17_EveryCellCounted == probe.op = "profile" => CountedCells = SampledCount

\* C17: a table of two rows, one cell "0" and one text cell, was profiled:
\* the counts add up to 1.
C17_Witness ==
  /\ probe.op = "profile"
  /\ Len(probe.rows) = 2
  /\ \E n \in 1..2 : probe.rows[n] = << << "0" >> >>
  /\ probe.stats[1].textCount = 1
  /\ CountedCells = 1

\* Every sampled cell of the probed column is empty or price-like.
OnlyEmptyOrPrice ==
  \A n \in 1..SampledCount : IsEmptyCell(SampledCells[n]) \/ looksLikePrice(SampledCells[n])

\* C18: in detectColumnTypes the empty test comes before the price test
\* and the price test before the text test. A column whose sampled cells
\* are each empty or price-like gets priceCount = the number of price-like
\* cells, emptyCount = the number of empty cells and textCount = 0; 100
\* rows of which 40 are price-like and 60 empty give 40 / 60 / 0; a cell
\* that passes the price and the text test is counted as price only.
C18_PricePriority ==
  probe.op = "profile" =>
    /\ OnlyEmptyOrPrice =>
         /\ probe.stats[1].priceCount =
              Cardinality({n \in 1..SampledCount : ~IsEmptyCell(SampledCells[n])})
         /\ probe.stats[1].emptyCount =
              Cardinality({n \in 1..SampledCount : IsEmptyCell(SampledCells[n])})
         /\ probe.stats[1].textCount = 0
    /\ probe.stats[1].textCount =
         Cardinality({n \in 1..SampledCount :
                        /\ ~IsEmptyCell(SampledCells[n])
                        /\ ~looksLikePrice(SampledCells[n])
                        /\ looksLikeProductName(SampledCells[n])})
    /\ (Len(probe.rows) = 100
          /\ Cardinality({n \in 1..100 : looksLikePrice(SampledCells[n])}) = 40
          /\ Cardinality({n \in 1..100 : IsEmptyCell(SampledCells[n])}) = 60) =>
         /\ probe.stats[1].priceCount = 40
         /\ probe.stats[1].emptyCount = 60
         /\ probe.stats[1].textCount = 0

\* C18: a column of 100 rows, 40 price-like and 60 empty, was counted
\* 40 / 60 / 0.
C18_Witness ==
  /\ probe.op = "profile"
  /\ Len(probe.rows) = 100
  /\ Cardinality({n \in 1..100 : looksLikePrice(SampledCells[n])}) = 40
  /\ Cardinality({n \in 1..100 : IsEmptyCell(SampledCells[n])}) = 60
  /\ probe.stats[1].priceCount = 40
  /\ probe.stats[1].emptyCount = 60
  /\ probe.stats[1].textCount = 0

\* C18: a cell that passes both the price and the text test, "1e3", was
\* counted as price and not as text.
C18_BothTestsWitness ==
  /\ probe.op = "profile"
  /\ \E n \in 1..SampledCount :
       looksLikePrice(SampledCells[n]) /\ looksLikeProductName(SampledCells[n])
  /\ OnlyEmptyOrPrice
  /\ probe.stats[1].priceCount >= 1
  /\ probe.stats[1].textCount = 0

\* The zero-based indices of the rows the locator examines.
ScanWindow ==
  0..((IF Len(probe.rawData) < 10 THEN Len(probe.rawData) ELSE 10) - 1)

\* Row i (zero-based) of the probed content has at least 3 non-empty cells
\* and at least 2 cells containing a letter.
HeaderLike(i) ==
  /\ Cardinality({k \in DOMAIN probe.rawData[i + 1] :
                    trim(probe.rawData[i + 1][k]) # <<>>}) >= 3
  /\ Cardinality({k \in DOMAIN probe.rawData[i + 1] :
                    \E c \in DOMAIN probe.rawData[i + 1][k] :
                      IsLetter(probe.rawData[i + 1][k][c])}) >= 2

C19_LastOfWindowWitness ==
  /\ probe.op = "locate"
  /\ Len(probe.rawData) >= 10
  /\ HeaderLike(9)
  /\ \A i \in 0..8 : ~HeaderLike(i)
  /\ probe.index = 9

\* C20 as stated: the column labels the extractor maps fields with and
\* reads rows by (the fields of the second parse) are the labels
\* synthesized from the row the locator selected, also when title rows
\* precede it.
C20_LabelsFromLocatedRow ==
  probe.op = "locate" => probe.fields = probe.headers

\* The field mapping was resolved for a sheet none of whose labels matches
\* a name candidate.
MappedWithoutNameHeader ==
  probe.op = "map" /\ pickHeader(probe.hs, NameCandidates) = Null

\* The number of rows detectColumnTypes sampled of the sheet.
SheetSampled == IF Len(probe.rows) < 100 THEN Len(probe.rows) ELSE 100

\* The text-like count of column i is more than 30% of `sampled`.
TextFilled(stats, i, sampled) == stats[i].textCount * 100 > 30 * sampled

\* Column i has the highest text-like count of the columns filled above
\* 30%, and is the earliest of those.
BestTextColumn(stats, i, sampled) ==
  /\ TextFilled(stats, i, sampled)
  /\ \A k \in DOMAIN stats :
       TextFilled(stats, k, sampled) => stats[k].textCount <= stats[i].textCount
  /\ \A k \in 1..(i - 1) :
       TextFilled(stats, k, sampled) => stats[k].textCount < stats[i].textCount

\* C21 as stated: when no label matches a name candidate, the name column
\* is the column with the highest text-like count among those whose text
\* fill rate, text-like count over the number of sampled rows, exceeds 30%,
\* the earliest on a tie; no name column is resolved, and the result is
\* empty, only if no column exceeds 30%; for a sheet of any number of rows.
C21_NameByTextFillRate ==
  MappedWithoutNameHeader =>
    /\ \A i \in DOMAIN probe.stats :
         BestTextColumn(probe.stats, i, SheetSampled) => probe.mapping.name = probe.hs[i]
    /\ probe.mapping.name = Null =>
         /\ \A i \in DOMAIN probe.stats : ~TextFilled(probe.stats, i, SheetSampled)
         /\ probe.products = <<>>

\* A label of the sheet matches a candidate of one of the four price
\* fields.
PriceHeaderMatched(hs) ==
  \/ pickHeader(hs, PurchaseCandidates) # Null
  \/ pickHeader(hs, SellingCandidates) # Null
  \/ pickHeader(hs, MrpCandidates) # Null
  \/ pickHeader(hs, WithoutTaxCandidates) # Null

\* C22 as stated: when a label matches a candidate of purchase, selling,
\* mrp or without-tax, of without-tax alone too, selling_price and
\* mrp_price are the columns matched by name, or none, and never an
\* auto-detected price column.
C22_NoFallbackAfterNameMatch ==
  probe.op = "map" /\ PriceHeaderMatched(probe.hs) =>
    /\ probe.mapping.selling_price = pickHeader(probe.hs, SellingCandidates)
    /\ probe.mapping.mrp_price = pickHeader(probe.hs, MrpCandidates)

\* The price-like count of column i is more than 30% of `sampled`.
PriceFilled(stats, i, sampled) == stats[i].priceCount * 100 > 30 * sampled

\* Column i is the n-th column, in header order, filled with prices above
\* 30%.
NthPriceColumn(stats, i, sampled, n) ==
  /\ PriceFilled(stats, i, sampled)
  /\ Cardinality({k \in 1..(i - 1) : PriceFilled(stats, k, sampled)}) = n - 1

PriceFilledCount(stats, sampled) ==
  Cardinality({k \in DOMAIN stats : PriceFilled(stats, k, sampled)})

\* C23 as stated: when no label matches a candidate of a price field and
\* a column is filled with prices above 30%, selling_price is the first
\* such column in header order and mrp_price the second, if any;
\* purchase_price and without_tax_price are never an auto-detected column
\* and are in no emitted record.
C23_FallbackAssignsInHeaderOrder ==
  probe.op = "map" /\ ~PriceHeaderMatched(probe.hs)
      /\ PriceFilledCount(probe.stats, SheetSampled) > 0 =>
    /\ \A i \in DOMAIN probe.stats :
         /\ NthPriceColumn(probe.stats, i, SheetSampled, 1) =>
              probe.mapping.selling_price = probe.hs[i]
         /\ NthPriceColumn(probe.stats, i, SheetSampled, 2) =>
              probe.mapping.mrp_price = probe.hs[i]
    /\ PriceFilledCount(probe.stats, SheetSampled) = 1 => probe.mapping.mrp_price = Null
    /\ probe.mapping.purchase_price = Null
    /\ probe.mapping.without_tax_price = Null
    /\ \A n \in DOMAIN probe.products :
         DOMAIN probe.products[n].f \cap {"purchase_price", "without_tax_price"} = {}

\* The fast path of r ran and yielded nothing: the extractor raised an
\* exception, found no name column or dropped every row.
FastPathYieldedNothing(r) == Made(r, "extract") /\ directProducts[r] = <<>>

\* The messages of the 500 responses of the AI path: a rejected fetch or
\* body read, a reply without choices, an unparsable or non-array content,
\* a failed gateway, an array of invalid products only.
AiPathFailures ==
  { RejectionMessage, TypeErrorMessage, "Failed to process file with AI",
    "Failed to extract product data. Please ensure the file contains product information.",
    "Invalid AI response format. Expected an array of products.",
    "Failed to validate product data. Please check the file format." }

\* The response of r is one the AI path gives for the replies r received.
AiPathResponse(r) ==
  /\ Len(responses[r]) = 1
  /\ aiStatus[r] = 0 => ErrorReply(r, 500, RejectionMessage)
  /\ aiStatus[r] = 429 => responses[r][1].status = 429
  /\ aiStatus[r] = 402 => responses[r][1].status = 402
  /\ aiStatus[r] \notin {0, 402, 429} /\ ~IsOk(aiStatus[r]) =>
       /\ responses[r][1].status = 500
       /\ responses[r][1].body.error \in {RejectionMessage, "Failed to process file with AI"}
  /\ IsOk(aiStatus[r]) /\ Made(r, "validate") =>
       /\ responses[r][1].status =
            Validated(rawProducts[r], validateAndSanitizeProducts(rawProducts[r])).status
       /\ responses[r][1].body =
            Validated(rawProducts[r], validateAndSanitizeProducts(rawProducts[r])).body
  /\ IsOk(aiStatus[r]) /\ ~Made(r, "validate") =>
       /\ responses[r][1].status = 500
       /\ responses[r][1].body.error \in AiPathFailures
  /\ responses[r][1].status = 500 => responses[r][1].body.error \in AiPathFailures

\* C24: a fast path that yields nothing never fails the request: when the
\* extractor raised an exception, found no name column or dropped every
\* row, the handler has called the AI gateway, no response was produced
\* before that call, and the response is the one the AI path gives for the
\* gateway's replies.
C24_SoftFastPath ==
  \A r \in Reqs :
    FastPathYieldedNothing(r) =>
      /\ Made(r, "aiCall")
      /\ aiRequest[r].mode = "text"
      /\ pc[r] \in {"fetch", "aiJson", "aiErrorText", "done"}
      /\ pc[r] # "done" => responses[r] = <<>>
      /\ Answered(r) => AiPathResponse(r)

\* C24: the extraction raised an exception, which was caught and logged,
\* and the request was answered 200 with the products of the AI path.
C24_Witness ==
  \E r \in Reqs :
    /\ Made(r, "extract") /\ Made(r, "warn") /\ Made(r, "validate")
    /\ Answered(r) /\ responses[r][1].status = 200
    /\ Len(responses[r][1].body.products) >= 1

\* C24: the extractor returned no product for a non-blank CSV, without an
\* exception, and the request was answered from the AI path.
C24_NothingFoundWitness ==
  \E r \in Reqs :
    /\ FastPathYieldedNothing(r) /\ ~Made(r, "warn") /\ Made(r, "validate")
    /\ Answered(r) /\ responses[r][1].status = 200

\* ------------------------------------------------------------------------
\* C25: the first bracketed span of the AI text
\* ------------------------------------------------------------------------

FirstBracket(s) == CHOOSE i \in 1..Len(s) : s[i] = "[" /\ \A k \in 1..(i - 1) : s[k] # "["

\* The brackets opened and not closed within s[a..b]
OpenBrackets(s, a, b) ==
  Cardinality({k \in a..b : s[k] = "["}) - Cardinality({k \in a..b : s[k] = "]"})

\* The ']' that matches the '[' at a closes at b.
ClosesAt(s, a, b) ==
  /\ s[b] = "]"
  /\ OpenBrackets(s, a, b) = 0
  /\ \A k \in a..(b - 1) : OpenBrackets(s, a, k) > 0

HasMatchedSpan(s) ==
  /\ \E i \in 1..Len(s) : s[i] = "["
  /\ \E b \in 1..Len(s) : b > FirstBracket(s) /\ ClosesAt(s, FirstBracket(s), b)

\* The span from the first '[' to its matching ']'
MatchedSpan(s) ==
  SubSeq(s, FirstBracket(s),
         CHOOSE b \in 1..Len(s) : b > FirstBracket(s) /\ ClosesAt(s, FirstBracket(s), b))

OneObjectArrayText ==
  << "[", "{", "\"", "n", "a", "m", "e", "\"", ":", "\"", "a", "b", "\"", "}", "]" >>

\* C25 as stated: the text without its fences is parsed from its first
\* '[' to the matching ']', or as a whole when it has no such span, and a
\* fenced array of one object gives an array of one element.
C25_FirstBracketSpan ==
  probe.op = "aiText" =>
    /\ probe.result =
         IF HasMatchedSpan(probe.cleaned)
         THEN JSONParse(MatchedSpan(probe.cleaned))
         ELSE JSONParse(probe.cleaned)
    /\ probe.text # probe.cleaned /\ probe.cleaned = OneObjectArrayText =>
         /\ probe.result.kind = "value"
         /\ probe.result.value.t = "arr"
         /\ Len(probe.result.value.items) = 1

\* What holds of the code: the span runs from the first '[' to the last
\* ']' of the cleaned text.
C25_GreedySpan ==
  probe.op = "aiText" =>
    /\ probe.match # Null =>
         /\ Head(probe.match) = "[" /\ probe.match[Len(probe.match)] = "]"
         /\ \E a \in 1..Len(probe.cleaned) :
              /\ probe.match = SubSeq(probe.cleaned, a, a + Len(probe.match) - 1)
              /\ \A k \in 1..(a - 1) : probe.cleaned[k] # "["
              /\ \A k \in (a + Len(probe.match))..Len(probe.cleaned) : probe.cleaned[k] # "]"
    /\ probe.text # probe.cleaned /\ probe.cleaned = OneObjectArrayText =>
         /\ probe.result.kind = "value"
         /\ probe.result.value.t = "arr"
         /\ Len(probe.result.value.items) = 1

\* A text whose first span parses to one record and that the handler
\* cannot parse
C25_TrailingBracketsWitness ==
  /\ probe.op = "aiText"
  /\ HasMatchedSpan(probe.cleaned)
  /\ JSONParse(MatchedSpan(probe.cleaned)).kind = "value"
  /\ probe.result.kind = "unparsable"

\* ------------------------------------------------------------------------
\* C27: columns shared by canonical fields
\* ------------------------------------------------------------------------

\* A sheet for which the extractor resolved a mapping (index.ts 220-223
\* returns before the mapping when there is no name column).
MappingResolved == probe.op = "map" /\ probe.mapping.name # Null

\* C27 as stated: no column is read by two canonical fields, and the name
\* column is not the column of selling_price, mrp_price or product_id.
C27_InjectiveMapping ==
  MappingResolved =>
    /\ \A f \in DOMAIN probe.mapping : \A g \in DOMAIN probe.mapping :
         f # g /\ probe.mapping[f] # Null => probe.mapping[f] # probe.mapping[g]
    /\ probe.mapping.name \notin
         { probe.mapping.selling_price, probe.mapping.mrp_price, probe.mapping.product_id }

\* The name column matched by a candidate is also the column of
\* product_id.
C27_NameAlsoProductId ==
  /\ MappingResolved
  /\ pickHeader(probe.hs, NameCandidates) # Null
  /\ probe.mapping.product_id = probe.mapping.name

\* The name column found by its text cells is also the selling price
\* column found by its price cells.
C27_DetectedNameAlsoPrice ==
  /\ MappingResolved
  /\ pickHeader(probe.hs, NameCandidates) = Null
  /\ ~PriceHeaderMatched(probe.hs)
  /\ probe.mapping.selling_price = probe.mapping.name

\* ------------------------------------------------------------------------
\* C28: labels whose normalized form is empty
\* ------------------------------------------------------------------------

\* C28 as stated: a label that pickHeader returns by its fuzzy phase has
\* a normalized form that is not empty.
C28_NoEmptyNormalizedMatch ==
  probe.op = "pickHeader" /\ probe.result # Null
      /\ NoExactHit(NormalizeAll(probe.headers), NormalizeAll(probe.candidates)) =>
    normalizeHeader(probe.result) # << >>

\* What holds of the code: a label with an empty normalized form is
\* never an exact match, and it is returned only when no label before it
\* includes a candidate or is included in one.
C28_EmptyFormMatchesFuzzily ==
  probe.op = "pickHeader" /\ probe.result # Null
      /\ normalizeHeader(probe.result) = << >> =>
    /\ NoExactHit(NormalizeAll(probe.headers), NormalizeAll(probe.candidates))
    /\ probe.candidates # << >>
    /\ \A i \in DOMAIN probe.headers :
         probe.headers[i] = probe.result \/
           (\E k \in 1..(i - 1) : probe.headers[k] = probe.result) \/
           ~FuzzyAt(NormalizeAll(probe.headers), NormalizeAll(probe.candidates), i, 1)

\* ------------------------------------------------------------------------
\* C29: the empty array of the AI
\* ------------------------------------------------------------------------

\* The AI content of r parsed to an array, which the handler validated.
ParsedArray(r) == Answered(r) /\ Made(r, "validate")

\* C29: when the AI content parses to the empty array the request is
\* answered 200 with the empty product list; the validation failure is
\* answered only for a non-empty array; and a 200 response with an empty
\* product list comes from the AI path, after the AI call, for an empty
\* parsed array, and never from the fast path.
C29_EmptyArrayIsSuccess ==
  \A r \in Reqs :
    /\ ParsedArray(r) /\ rawProducts[r] = << >> => ProductsReply(r, 200, << >>)
    /\ Answered(r)
         /\ ErrorReply(r, 500, "Failed to validate product data. Please check the file format.") =>
         /\ ParsedArray(r)
         /\ Len(rawProducts[r]) > 0
    /\ Answered(r) /\ ProductsReply(r, 200, << >>) =>
         /\ Made(r, "aiCall")
         /\ ParsedArray(r)
         /\ rawProducts[r] = << >>
         /\ directProducts[r] = << >>

\* C29: an empty array was parsed and validated, and the request was
\* answered 200 with no product.
C29_Witness ==
  \E r \in Reqs :
    /\ ParsedArray(r) /\ rawProducts[r] = << >>
    /\ ProductsReply(r, 200, << >>)

\* C29: the same after a fast path that found nothing
C29_AfterFastPathWitness ==
  \E r \in Reqs :
    /\ Made(r, "extract") /\ ParsedArray(r) /\ rawProducts[r] = << >>
    /\ ProductsReply(r, 200, << >>)

\* ------------------------------------------------------------------------
\* C30: every request is answered once
\* ------------------------------------------------------------------------

\* r has one response.
OneResponse(r) == Answered(r) /\ Len(responses[r]) = 1

\* The handler of r is at one of its await points.
Awaiting(r) ==
  pc[r] \in {"getUser", "roleLookup", "readBody", "fetch", "aiErrorText", "aiJson"}

\* An await of r was rejected: the identity exchange, the role lookup, the
\* body read, the fetch, or the read of the gateway's error body.
Rejected(r) ==
  \/ user[r] = "reject"
  \/ roleData[r].outcome = "reject"
  \/ body[r].kind = "reject"
  \/ Made(r, "aiCall") /\ pc[r] = "done" /\ aiStatus[r] = 0
  \/ errorText[r] = "reject"

\* C30: when every awaited step settles, every received request is
\* eventually answered, and a handler waiting at an await point too; a
\* handler has returned exactly when there is one response, there is
\* never a second one, the handler ends only with that response, and an
\* exception that reaches the handler's catch (a rejected await among
\* them) ends it with one 500 response that holds only an error message.
C30_EveryRequestAnswered ==
  /\ \A r \in Reqs : (pc[r] = "start") ~> OneResponse(r)
  /\ \A r \in Reqs : Awaiting(r) ~> OneResponse(r)
  /\ [](\A r \in Reqs : Len(responses[r]) <= 1 /\ (Answered(r) <=> Len(responses[r]) = 1))
  /\ [](\A r \in Reqs : pc[r] \in {"start", "done"} \/ Awaiting(r) \/ pc[r] = "absent")
  /\ [](\A r \in Reqs : Answered(r) /\ Rejected(r) => ErrorReply(r, 500, RejectionMessage))

\* C30: a request whose AI reply body could not be read was answered with
\* one 500 envelope after all five awaited steps.
C30_Witness ==
  \E r \in Reqs :
    /\ Made(r, "getUser") /\ Made(r, "roleLookup") /\ Made(r, "readBody")
    /\ Made(r, "aiCall") /\ Made(r, "aiJson")
    /\ IsOk(aiStatus[r])
    /\ ~Made(r, "validate")
    /\ OneResponse(r)
    /\ ErrorReply(r, 500, RejectionMessage)

\* ------------------------------------------------------------------------
\* C26: two requests do not affect each other
\* ------------------------------------------------------------------------

\* Everything the handler of r holds: its request, its position, the
\* replies it received and its locals.
Locals(r) ==
  << req[r], pc[r], calls[r], user[r], roleRows[r], roleData[r], body[r], fileType[r],
     fileContent[r], fileBase64[r], directProducts[r], aiRequest[r], aiStatus[r],
     errorText[r], rawProducts[r], responses[r] >>

Response(status, json) == [status |-> status, body |-> json]

\* The responses of a handler run alone whose AI call was answered as the
\* one of r was: by the gateway's status, the error body read, and the
\* array the content parsed to, or a content that gave no array.
SoloAfterFetch(r) ==
  IF aiStatus[r] = 0 THEN { Response(500, ErrorBody(RejectionMessage)) }
  ELSE IF aiStatus[r] = 429
  THEN { Response(429, ErrorBody("Rate limit exceeded. Please try again later.")) }
  ELSE IF aiStatus[r] = 402
  THEN { Response(402, ErrorBody("Payment required. Please add credits to your Lovable AI workspace.")) }
  ELSE IF ~IsOk(aiStatus[r])
  THEN { Response(500, ErrorBody(IF errorText[r] = "reject" THEN RejectionMessage
                                 ELSE FailureMessage(errorText[r]))) }
  ELSE IF Made(r, "validate")
  THEN { Response(Validated(rawProducts[r], validateAndSanitizeProducts(rawProducts[r])).status,
                  Validated(rawProducts[r], validateAndSanitizeProducts(rawProducts[r])).body) }
  ELSE { Response(500, ErrorBody(m)) :
           m \in { RejectionMessage, TypeErrorMessage,
                   "Failed to extract product data. Please ensure the file contains product information.",
                   "Invalid AI response format. Expected an array of products." } }

\* index.ts 377-521 applied to a body: the response that ends the request
\* at the body, or what the dispatch gives for the locals of the body.
BodyOutcome(parsed, thrown) ==
  IF parsed.result = "reply" THEN parsed
  ELSE Dispatch(parsed.fileType, parsed.fileContent, parsed.fileBase64, thrown)

\* The outcome for every body a handler may read, the extraction raising
\* an exception or not, computed once for each.
OutcomeAlone ==
  [ b \in FewFormBodies \cup FewJsonBodies, thrown \in BOOLEAN |->
      BodyOutcome(ParseBody(b), thrown) ]

\* ... whose body was read as the one of r was
SoloAfterBody(r, d) ==
  IF d.result = "reply" /\ "message" \in DOMAIN d
  THEN { Response(d.status, ErrorBody(d.message)) }
  ELSE IF d.result = "reply" THEN { Response(d.status, ProductsBody(d.products)) }
  ELSE IF d.result = "throw" THEN { Response(500, ErrorBody(d.message)) }
  ELSE SoloAfterFetch(r)

\* The responses of a handler that runs alone with the request of r, the
\* settings, and the replies r received.
SoloResponses(r) ==
  IF req[r].method = "OPTIONS" THEN { Response(200, NullBody) }
  ELSE IF MissingHeader(req[r].authorization)
  THEN { Response(401, ErrorBody("Authentication required")) }
  ELSE IF StoreConfigMissing(env)
  THEN { Response(500, ErrorBody("Supabase configuration missing")) }
  ELSE IF user[r] = "reject" THEN { Response(500, ErrorBody(RejectionMessage)) }
  ELSE IF InvalidUser(user[r])
  THEN { Response(401, ErrorBody("Invalid or expired authentication token")) }
  ELSE IF roleData[r].outcome = "reject" THEN { Response(500, ErrorBody(RejectionMessage)) }
  ELSE IF NoWritePermission(roleData[r].outcome, roleData[r].rows)
  THEN { Response(403, ErrorBody("You do not have permission to import files. Admin or staff role required.")) }
  ELSE IF ~env["LOVABLE_API_KEY"]
  THEN { Response(500, ErrorBody("LOVABLE_API_KEY is not configured")) }
  ELSE SoloAfterBody(r, OutcomeAlone[body[r], Made(r, "warn")])

\* Both requests are being handled, or were.
BothServed == \A r \in Reqs : pc[r] # "absent"

\* A step changes what the handler of r holds and nothing another handler
\* holds, and no step changes the settings.
OwnLocalsOnly ==
  /\ env' = env
  /\ \A r \in Reqs : Locals(r)' # Locals(r) =>
       \A q \in Reqs \ {r} : Locals(q)' = Locals(q)

\* C26: whether a request is served alone or interleaved with another at
\* any of the await points, its response is the one a handler run alone
\* gives for its request and the replies it received, whatever the other
\* handler holds; and every step writes the locals of one handler only.
C26_NoSharedState ==
  /\ [](\A r \in Reqs : Answered(r) =>
          /\ Len(responses[r]) = 1
          /\ responses[r][1] \in SoloResponses(r))
  /\ [][OwnLocalsOnly]_vars

\* C26: the handlers of two requests interleaved: one of them waited for
\* the AI gateway while the other went from its body read to its
\* response, and both were answered, differently.
C26_Witness ==
  /\ BothServed
  /\ \A r \in Reqs : Answered(r) /\ Made(r, "aiCall") /\ IsOk(aiStatus[r])
  /\ responses["r1"][1].status = 200
  /\ responses["r2"][1].status = 500
  /\ Made("r1", "validate") /\ Made("r2", "validate")
  /\ rawProducts["r1"] # rawProducts["r2"]

====
